---- MODULE Spec2Model ----
(***************************************************************************)
(* agent-cli: provider registry, validator with TTL cache, process         *)
(* launcher with signal forwarding and the same-category fallback chain.   *)
(***************************************************************************)
EXTENDS Integers, Sequences, FiniteSets, TLC

VARIABLES
    config,           \* providers.json: providers, overrides, disabled
    processEnv,       \* process.env of the parent: name -> value ("" = unset)
    network,          \* outcome a GET to a url has right now
    which,            \* exit status `which <command>` has right now
    isMacOS,          \* platform() === "darwin"
    rmFails,          \* rmSync of a shim directory throws in this environment
    now,              \* Date.now()
    validationCache,  \* Map<id, {result, timestamp}>
    pc,               \* position of the parent process
    pending,          \* children whose exit handler awaits the resolver
    children,         \* one record per launch attempt, in spawn order
    sigHandlers,      \* process.on(SIGINT/SIGTERM) listeners, by child index
    received,         \* signals the parent has received, in order
    tempDirs,         \* shim directories that exist on disk, by child index
    log,              \* console output, one tag per line
    lastResolve,      \* argument and result of the last findFallbackProvider
    parentExit,       \* exit code of the parent, NoExit while it runs
    calls,            \* what the callers of the validator's API did and got back
    lastGetAll,       \* the last call of getAllProviders: the file it read, the list
    batch,            \* the validateAllProviders call that is running, check by check
    health,           \* the healthCheckAllProviders call that is running, step by step
    lastEdit          \* the last disableProvider / enableProvider call and whether it wrote

vars == <<config, processEnv, network, which, isMacOS, rmFails, now, validationCache,
          pc, pending, children, sigHandlers, received, tempDirs, log,
          lastResolve, parentExit, calls, lastGetAll, batch, health, lastEdit>>

\* what callers of the validator and of the registry have seen
api == <<calls, lastGetAll, batch, health, lastEdit>>

\* the variables of the launcher
launch == <<pc, pending, children, sigHandlers, received, tempDirs, log,
            lastResolve, parentExit>>

world == <<config, processEnv, network, which, isMacOS, rmFails>>

----------------------------------------------------------------------------
(* Bounds *)

MaxProviders == 3      \* longest raw provider list in the config file
MaxSignals == 1        \* signals the parent receives in one run
MaxCalls == 3          \* calls of the validator's API in one run
MaxPeriods == 1        \* cache lifetimes the clock runs through
MaxBatch == 2          \* longest provider list given to validateAllProviders

(* Program constants *)

CACHE_TTL == 5 * 60 * 1000

NullCode == -1         \* exit code `null`: the child was ended by a signal
NoExit == -2           \* the parent has not exited
KilledBySignal == -3   \* the parent died of a signal's default disposition
UnhandledRejectionExit == 1   \* Node >= 18 ends the process on an unhandled rejection

Signals == {"SIGINT", "SIGTERM"}
ExitCodes == {NullCode, 0, 2}

----------------------------------------------------------------------------
(* Provider records.  Absent optional fields are "" (falsy in the code).   *)

Validation(t, k, u, c) == [type |-> t, envKey |-> k, url |-> u, command |-> c]

Prov(i, cat, t, cmd, v) ==
    [id |-> i, category |-> cat, type |-> t, command |-> cmd, validation |-> v]

OllamaUrl == "http://localhost:11434"

ProviderPool ==
    { Prov("zai", "anthropic", "api", "", Validation("env", "ZAI_API_KEY", "", "")),
      Prov("ollama", "local", "proxy", "", Validation("http", "", OllamaUrl, "")),
      Prov("codex", "local", "standalone", "codex", Validation("command", "", "", "codex")),
      Prov("gemini", "local", "standalone", "gemini", Validation("env", "", "", "")) }

PoolIds == { p.id : p \in ProviderPool }

Includes(seq, x) == \E i \in 1..Len(seq) : seq[i] = x

\* the sequences over S of length at most n that name no element twice
RECURSIVE SeqsUpTo(_, _)
SeqsUpTo(S, n) ==
    IF n = 0 THEN { <<>> }
    ELSE LET shorter == SeqsUpTo(S, n - 1)
         IN  shorter \cup
             UNION { { Append(s, x) : x \in { y \in S : ~Includes(s, y) } } :
                     s \in shorter }

EnvNames == {"ZAI_API_KEY"}
Urls == {OllamaUrl}
Commands == {"codex"}

----------------------------------------------------------------------------
(* Registry *)

\* mutant: the fields of the raw entry win over the override
Merge_BaseWins(p, override) ==
    [k \in (DOMAIN p) \cup (DOMAIN override) |->
        IF k \in DOMAIN p THEN p[k] ELSE override[k]]

\* { ...p, ...override }
Merge(p, override) ==
    [k \in (DOMAIN p) \cup (DOMAIN override) |->
        IF k \in DOMAIN override THEN override[k] ELSE p[k]]

\* .filter(seenIds) : keep the first occurrence of every id
RECURSIVE DedupeFrom(_, _)
DedupeFrom(seq, seenIds) ==
    IF seq = <<>> THEN <<>>
    ELSE IF Head(seq).id \in seenIds THEN DedupeFrom(Tail(seq), seenIds)
         ELSE <<Head(seq)>> \o DedupeFrom(Tail(seq), seenIds \cup {Head(seq).id})

getAllProvidersOf(cfg) ==
    LET enabled == SelectSeq(cfg.providers, LAMBDA p : ~Includes(cfg.disabled, p.id))
        unique  == DedupeFrom(enabled, {})
    IN  [i \in 1..Len(unique) |->
            IF unique[i].id \in DOMAIN cfg.overrides
            THEN Merge(unique[i], cfg.overrides[unique[i].id])
            ELSE unique[i]]

\* mutant: the disabled list is not looked at
getAllProviders_Disabled == getAllProvidersOf([config EXCEPT !.disabled = <<>>])

\* getAllProviders() : the file is read at every call
getAllProviders == getAllProvidersOf(config)

\* getAllProviders().find(p => p.id === id) : <<>> when there is none
getProviderById(id) ==
    LET found == SelectSeq(getAllProviders, LAMBDA p : p.id = id)
    IN  IF found = <<>> THEN <<>> ELSE <<Head(found)>>

NoGetAll == [called |-> FALSE, of |-> <<>>, result |-> <<>>]

\* a caller calls getAllProviders(): the file is read at every call
GetAll ==
    /\ lastGetAll' = [called |-> TRUE, of |-> config,
                      result |-> getAllProvidersOf(config)]
    /\ UNCHANGED <<world, now, validationCache, calls, batch, health, lastEdit, launch>>

NoEdit == [called |-> FALSE, op |-> "", id |-> "", wrote |-> FALSE]

\* disableProvider(id) : the id is pushed and the file saved only when the id
\* is not in the list yet
disableProvider(id) ==
    /\ config' = IF Includes(config.disabled, id) THEN config
                  ELSE [config EXCEPT !.disabled = Append(@, id)]
    /\ lastEdit' = [called |-> TRUE, op |-> "disable", id |-> id,
                    wrote |-> ~Includes(config.disabled, id)]
    /\ UNCHANGED <<processEnv, network, which, isMacOS, rmFails, now,
                   validationCache, calls, lastGetAll, batch, health, launch>>

\* enableProvider(id) : every occurrence of the id is removed and the file
\* is saved, whether or not the id was in the list
enableProvider(id) ==
    /\ config' = [config EXCEPT !.disabled = SelectSeq(@, LAMBDA d : d # id)]
    /\ lastEdit' = [called |-> TRUE, op |-> "enable", id |-> id, wrote |-> TRUE]
    /\ UNCHANGED <<processEnv, network, which, isMacOS, rmFails, now,
                   validationCache, calls, lastGetAll, batch, health, launch>>

(* The config file as it lies on disk.  A document is what JSON.parse makes
   of the text; every value is a tagged record. *)

Unparseable == [json |-> "none"]        \* text JSON.parse throws on
Absent == [json |-> "undefined"]        \* a property the object does not have
JNull == [json |-> "null"]
JNumber == [json |-> "number"]          \* 42
JString(s) == [json |-> "string", text |-> s]
JArray(items) == [json |-> "array", items |-> items]
JObject(ps, os, ds) ==
    [json |-> "object", providers |-> ps, overrides |-> os, disabled |-> ds]

EmptyObject == JObject(Absent, Absent, Absent)

\* parsed.key : undefined on a number or a string
Field(parsed, key) == IF parsed.json = "object" THEN parsed[key] ELSE Absent

Falsy(v) ==
    \/ v.json \in {"undefined", "null"}
    \/ (v.json = "string" /\ v.text = "")

\* v || d
OrElse(v, d) == IF Falsy(v) THEN d ELSE v

EmptyConfig ==
    [providers |-> JArray(<<>>), overrides |-> EmptyObject, disabled |-> JArray(<<>>)]

\* loadProviderConfig : JSON.parse throwing, and the TypeError of reading
\* a property of null, are caught and give the empty config; every other
\* document goes through with whatever its three properties hold
loadProviderConfig(file) ==
    IF file.json = "none" THEN EmptyConfig
    ELSE IF file.json = "array"
    THEN [providers |-> file, overrides |-> EmptyObject, disabled |-> JArray(<<>>)]
    ELSE IF file.json = "null" THEN EmptyConfig
    ELSE [providers |-> OrElse(Field(file, "providers"), JArray(<<>>)),
          overrides |-> OrElse(Field(file, "overrides"), EmptyObject),
          disabled  |-> OrElse(Field(file, "disabled"), JArray(<<>>))]

Returned(list) == [threw |-> FALSE, list |-> list]
Thrown == [threw |-> TRUE, list |-> <<>>]

\* getAllProviders() on the file: nothing catches what the chain
\* config.providers.filter(p => !config.disabled.includes(p.id)) throws.
\* The documents of the model store a list or a number under `disabled`
\* and nothing, or a number, under `overrides`.
getAllProvidersOfFile(file) ==
    LET cfg == loadProviderConfig(file)
    IN  IF cfg.providers.json # "array" THEN Thrown    \* .filter is not a function
        ELSE IF cfg.providers.items = <<>> THEN Returned(<<>>)
        ELSE IF cfg.disabled.json # "array" THEN Thrown   \* .includes is not a function
        ELSE IF \E i \in 1..Len(cfg.providers.items) : cfg.providers.items[i] = JNull
        THEN Thrown                                    \* p.id of null
        ELSE Returned(getAllProvidersOf(
                 [providers |-> cfg.providers.items,
                  overrides |-> << >>,
                  disabled  |-> [i \in 1..Len(cfg.disabled.items) |->
                                    cfg.disabled.items[i].text]]))

\* a caller calls getAllProviders() while the file holds any document
GetAllFromFile ==
    /\ lastGetAll' = [called |-> TRUE, of |-> config,
                      result |-> getAllProvidersOfFile(config)]
    /\ UNCHANGED <<world, now, validationCache, calls, batch, health, lastEdit, launch>>

\* the user edits providers.json by hand
EditFile(document) ==
    /\ config' = document
    /\ config' # config
    /\ UNCHANGED <<processEnv, network, which, isMacOS, rmFails, now,
                   validationCache, api, launch>>

----------------------------------------------------------------------------
(* Validator *)

Result(v, m) == [valid |-> v, message |-> m]

NoCache == << >>

\* mutant: the cache is never read
getCachedResult_Never(cache, providerId, t) == <<>>

\* mutant: an entry is still served when exactly the TTL has passed
getCachedResult_Inclusive(cache, providerId, t) ==
    IF providerId \in DOMAIN cache /\ t - cache[providerId].timestamp <= CACHE_TTL
    THEN <<cache[providerId].result>>
    ELSE <<>>

\* getCachedResult : <<>> for null
getCachedResult(cache, providerId, t) ==
    IF providerId \in DOMAIN cache /\ t - cache[providerId].timestamp < CACHE_TTL
    THEN <<cache[providerId].result>>
    ELSE <<>>

setCachedResult(cache, providerId, result, t) ==
    [k \in (DOMAIN cache) \cup {providerId} |->
        IF k = providerId THEN [result |-> result, timestamp |-> t] ELSE cache[k]]

\* execFileSync("which", [command]) : status 0 is found, anything else is not
commandExists(command) ==
    command \in DOMAIN which /\ which[command] = 0

\* mutant: the variable is not read, a key counts as configured
EnvValue_Unread(key) == "configured"

\* process.env[key] : "" when it is not set
EnvValue(key) == IF key \in DOMAIN processEnv THEN processEnv[key] ELSE ""

\* mutant: the abort after 2000 ms is reported like any other fetch error
FetchOutcome_Blurred(url) ==
    IF url \in DOMAIN network /\ network[url] = "ok" THEN "ok" ELSE "refused"

\* await fetch(url, {signal}) with the 2000 ms abort timer: "ok" when a
\* response of any status arrives first, "timeout" when the timer fires
\* first, "refused" when the connection fails
FetchOutcome(url) == IF url \in DOMAIN network THEN network[url] ELSE "refused"

\* a promise that rejects with error e
Rejection(e) == [rejected |-> e]

\* mutant: a failure of the lookup other than "not found" is not caught
underlyingCheck_Uncaught(provider) ==
    LET validation == provider.validation
    IN  IF validation.type = "env"
        THEN IF validation.envKey = ""
             THEN Result(TRUE, <<"Always available">>)
             ELSE IF EnvValue(validation.envKey) # ""
                  THEN Result(TRUE, <<"API key configured">>)
                  ELSE Result(FALSE, <<validation.envKey, " not set">>)
        ELSE IF validation.type = "http"
        THEN IF validation.url = ""
             THEN Result(FALSE, <<"No URL configured">>)
             ELSE IF FetchOutcome(validation.url) = "ok"
                  THEN Result(TRUE, <<"Reachable at ", validation.url>>)
                  ELSE Result(FALSE, <<"Not reachable at ", validation.url,
                                       FetchOutcome(validation.url)>>)
        ELSE IF validation.type = "command"
        THEN IF validation.command = ""
             THEN Result(FALSE, <<"No command configured">>)
             ELSE IF commandExists(validation.command)
                  THEN Result(TRUE, <<validation.command, " found in PATH">>)
                  ELSE IF validation.command \in DOMAIN which
                          /\ which[validation.command] # 1
                       THEN Rejection("execFileSync")
                       ELSE Result(FALSE, <<validation.command, " not found">>)
        ELSE Result(FALSE, <<"Unknown validation type">>)

\* the check behind validateProvider, below the cache
underlyingCheck(provider) ==
    LET validation == provider.validation
    IN  IF validation.type = "env"
        THEN IF validation.envKey = ""
             THEN Result(TRUE, <<"Always available">>)
             ELSE IF EnvValue(validation.envKey) # ""
                  THEN Result(TRUE, <<"API key configured">>)
                  ELSE Result(FALSE, <<validation.envKey, " not set">>)
        ELSE IF validation.type = "http"
        THEN IF validation.url = ""
             THEN Result(FALSE, <<"No URL configured">>)
             ELSE IF FetchOutcome(validation.url) = "ok"
                  THEN Result(TRUE, <<"Reachable at ", validation.url>>)
                  ELSE Result(FALSE, <<"Not reachable at ", validation.url,
                                       FetchOutcome(validation.url)>>)
        ELSE IF validation.type = "command"
        THEN IF validation.command = ""
             THEN Result(FALSE, <<"No command configured">>)
             ELSE IF commandExists(validation.command)
                  THEN Result(TRUE, <<validation.command, " found in PATH">>)
                  ELSE Result(FALSE, <<validation.command, " not found">>)
        ELSE Result(FALSE, <<"Unknown validation type">>)

\* mutant: an entry is served only while the provider's settings, checked
\* again, still give the stored result
validateProvider_Recheck(provider, skipCache, cache, t) ==
    LET cached == IF skipCache THEN <<>> ELSE getCachedResult(cache, provider.id, t)
    IN  IF cached # <<>> /\ cached[1] = underlyingCheck(provider)
        THEN [result |-> cached[1], cache |-> cache, checked |-> FALSE]
        ELSE LET result == underlyingCheck(provider)
             IN  [result |-> result,
                  cache |-> setCachedResult(cache, provider.id, result, t),
                  checked |-> TRUE]

\* mutant: skipCache is not looked at
validateProvider_IgnoreSkip(provider, skipCache, cache, t) ==
    LET cached == getCachedResult(cache, provider.id, t)
    IN  IF cached # <<>>
        THEN [result |-> cached[1], cache |-> cache, checked |-> FALSE]
        ELSE LET result == underlyingCheck(provider)
             IN  [result |-> result,
                  cache |-> setCachedResult(cache, provider.id, result, t),
                  checked |-> TRUE]

\* validateProvider(provider, skipCache) : the result and the cache it leaves
validateProvider(provider, skipCache, cache, t) ==
    LET cached == IF skipCache THEN <<>> ELSE getCachedResult(cache, provider.id, t)
    IN  IF cached # <<>>
        THEN [result |-> cached[1], cache |-> cache, checked |-> FALSE]
        ELSE LET result == underlyingCheck(provider)
             IN  [result |-> result,
                  cache |-> setCachedResult(cache, provider.id, result, t),
                  checked |-> TRUE]

\* mutant: nothing is removed
clearValidationCache_Keep == validationCache

\* validationCache.clear()
clearValidationCache == NoCache

\* the call reaches `await fetch` and is suspended there
Suspends(provider, cache, t) ==
    /\ getCachedResult(cache, provider.id, t) = <<>>
    /\ provider.validation.type = "http"
    /\ provider.validation.url # ""

\* providers.map(async ...) : every call runs up to its first await, in input
\* order; a call that is suspended has not written the cache yet
RECURSIVE startAll(_, _, _)
startAll(providers, cache, t) ==
    IF providers = <<>> THEN [outcomes |-> <<>>, cache |-> cache]
    ELSE LET p == Head(providers)
             v == validateProvider(p, FALSE, cache, t)
             mine == [provider |-> p, result |-> v.result, checked |-> v.checked]
             rest == startAll(Tail(providers),
                              IF Suspends(p, cache, t) THEN cache ELSE v.cache, t)
         IN  [outcomes |-> <<mine>> \o rest.outcomes, cache |-> rest.cache]

\* the suspended calls finish and write their results
RECURSIVE finishAll(_, _, _)
finishAll(outcomes, cache, t) ==
    IF outcomes = <<>> THEN cache
    ELSE LET o == Head(outcomes)
         IN  finishAll(Tail(outcomes),
                       IF o.checked
                       THEN setCachedResult(cache, o.provider.id, o.result, t)
                       ELSE cache,
                       t)

\* validateAllProviders(providers) : the outcomes in input order, the map of
\* results by id and the cache it leaves
validateAllProviders(providers, cache, t) ==
    LET started == startAll(providers, cache, t)
        ids == { providers[i].id : i \in 1..Len(providers) }
        lastOf(id) == CHOOSE i \in 1..Len(providers) :
                          /\ providers[i].id = id
                          /\ \A j \in (i + 1)..Len(providers) : providers[j].id # id
    IN  [outcomes |-> started.outcomes,
         results |-> [id \in ids |-> started.outcomes[lastOf(id)].result],
         cache |-> finishAll(started.outcomes, started.cache, t)]

CallRecord(op, provider, skipCache, t, result, checked) ==
    [op |-> op, provider |-> provider, skipCache |-> skipCache, at |-> t,
     result |-> result, checked |-> checked]

\* a caller awaits validateProvider(provider, skipCache)
Validate(provider, skipCache) ==
    /\ Len(calls) < MaxCalls
    /\ \E v \in {validateProvider(provider, skipCache, validationCache, now)} :
           /\ validationCache' = v.cache
           /\ calls' = Append(calls, CallRecord("validate", provider, skipCache,
                                                now, v.result, v.checked))
    /\ UNCHANGED <<world, now, lastGetAll, batch, health, lastEdit, launch>>

\* a caller awaits validateAllProviders(providers)
ValidateAll(providers) ==
    /\ Len(calls) + Len(providers) <= MaxCalls
    /\ \E v \in {validateAllProviders(providers, validationCache, now)} :
           /\ validationCache' = v.cache
           /\ calls' = calls \o
                   [i \in 1..Len(providers) |->
                       CallRecord("validate", providers[i], FALSE, now,
                                  v.outcomes[i].result, v.outcomes[i].checked)]
    /\ UNCHANGED <<world, now, lastGetAll, batch, health, lastEdit, launch>>

(* validateAllProviders step by step: what runs in the synchronous pass of
   providers.map, what waits, and what resumes afterwards *)

NoBatch ==
    [running |-> FALSE, providers |-> <<>>, next |-> 1, status |-> <<>>,
     outcome |-> <<>>, results |-> << >>, returned |-> FALSE]

\* execFileSync("which", ...) has not returned: the thread does nothing else
Blocked == \E i \in 1..Len(batch.providers) : batch.status[i] = "blocked"

\* mutant: the callbacks are awaited one after the other
CanStart_Sequential ==
    /\ batch.running
    /\ batch.next <= Len(batch.providers)
    /\ \A i \in 1..Len(batch.providers) : batch.status[i] \in {"unstarted", "done"}

\* providers.map calls the next callback as soon as the one before it has
\* returned its promise: nothing is awaited in between
CanStart ==
    /\ batch.running
    /\ batch.next <= Len(batch.providers)
    /\ ~Blocked

\* no synchronous code is left to run: the event loop delivers settled
\* fetches and resumes awaits only now
ThreadIdle == ~Blocked /\ ~CanStart

\* a caller calls validateAllProviders(providers)
CallValidateAll(providers) ==
    /\ ~batch.running
    /\ ~batch.returned
    /\ batch' = [running |-> TRUE, providers |-> providers, next |-> 1,
                 status |-> [i \in 1..Len(providers) |-> "unstarted"],
                 outcome |-> [i \in 1..Len(providers) |-> <<>>],
                 results |-> << >>, returned |-> FALSE]
    /\ UNCHANGED <<world, now, validationCache, calls, lastGetAll, health, lastEdit, launch>>

\* providers.map calls the callback of the next provider, which calls
\* validateProvider(provider): it runs up to its first await, or, for a
\* command, into execFileSync
StartCheck ==
    /\ CanStart
    /\ LET i == batch.next
           provider == batch.providers[i]
           cached == getCachedResult(validationCache, provider.id, now)
       IN  IF cached # <<>>
           THEN /\ batch' = [batch EXCEPT !.next = i + 1,
                                          !.status[i] = "resolved",
                                          !.outcome[i] = cached[1]]
                /\ UNCHANGED validationCache
           ELSE IF provider.validation.type = "http" /\ provider.validation.url # ""
           THEN /\ batch' = [batch EXCEPT !.next = i + 1, !.status[i] = "inflight"]
                /\ UNCHANGED validationCache
           ELSE IF provider.validation.type = "command"
                   /\ provider.validation.command # ""
           THEN /\ batch' = [batch EXCEPT !.next = i + 1, !.status[i] = "blocked"]
                /\ UNCHANGED validationCache
           ELSE /\ batch' = [batch EXCEPT !.next = i + 1,
                                          !.status[i] = "resolved",
                                          !.outcome[i] = underlyingCheck(provider)]
                /\ validationCache' = setCachedResult(validationCache, provider.id,
                                                      underlyingCheck(provider), now)
    /\ UNCHANGED <<world, now, calls, lastGetAll, health, lastEdit, launch>>

\* `which` exits: execFileSync returns, validateProvider stores and returns
WhichExits(i) ==
    /\ batch.running
    /\ i \in 1..Len(batch.providers)
    /\ batch.status[i] = "blocked"
    /\ batch' = [batch EXCEPT !.status[i] = "resolved",
                              !.outcome[i] = underlyingCheck(batch.providers[i])]
    /\ validationCache' = setCachedResult(validationCache, batch.providers[i].id,
                                          underlyingCheck(batch.providers[i]), now)
    /\ UNCHANGED <<world, now, calls, lastGetAll, health, lastEdit, launch>>

\* the fetch settles or is aborted: validateProvider resumes, stores and
\* returns; the event loop delivers this only to an idle thread
FetchSettles(i) ==
    /\ batch.running
    /\ ThreadIdle
    /\ i \in 1..Len(batch.providers)
    /\ batch.status[i] = "inflight"
    /\ batch' = [batch EXCEPT !.status[i] = "resolved",
                              !.outcome[i] = underlyingCheck(batch.providers[i])]
    /\ validationCache' = setCachedResult(validationCache, batch.providers[i].id,
                                          underlyingCheck(batch.providers[i]), now)
    /\ UNCHANGED <<world, now, calls, lastGetAll, health, lastEdit, launch>>

\* the callback resumes after its await: results.set(provider.id, result)
Resume(i) ==
    /\ batch.running
    /\ ThreadIdle
    /\ i \in 1..Len(batch.providers)
    /\ batch.status[i] = "resolved"
    /\ batch' = [batch EXCEPT
                   !.status[i] = "done",
                   !.results = [id \in (DOMAIN batch.results)
                                       \cup {batch.providers[i].id} |->
                                   IF id = batch.providers[i].id
                                   THEN batch.outcome[i]
                                   ELSE batch.results[id]]]
    /\ UNCHANGED <<world, now, validationCache, calls, lastGetAll, health, lastEdit, launch>>

\* Promise.all resolves when every callback has finished: return results
ReturnAll ==
    /\ batch.running
    /\ \A i \in 1..Len(batch.providers) : batch.status[i] = "done"
    /\ batch' = [batch EXCEPT !.running = FALSE, !.returned = TRUE]
    /\ UNCHANGED <<world, now, validationCache, calls, lastGetAll, health, lastEdit, launch>>

\* a caller calls clearValidationCache()
ClearCache ==
    /\ Len(calls) < MaxCalls
    /\ validationCache' = clearValidationCache
    /\ calls' = Append(calls, CallRecord("clear", <<>>, FALSE, now, <<>>, FALSE))
    /\ UNCHANGED <<world, now, lastGetAll, batch, health, lastEdit, launch>>

\* the instants the clock is looked at: every multiple of the TTL and the
\* millisecond before it
TimePoints ==
    { t \in { k * CACHE_TTL + e : k \in 0..MaxPeriods, e \in {-1, 0} } : t >= 0 }

\* time passes: Date.now() is later
Tick(t) ==
    /\ t \in TimePoints
    /\ t > now
    /\ now' = t
    /\ UNCHANGED <<world, validationCache, api, launch>>

\* process.env[key] is set, or deleted (value "")
SetEnv(key, value) ==
    /\ processEnv[key] # value
    /\ processEnv' = [processEnv EXCEPT ![key] = value]
    /\ UNCHANGED <<config, network, which, isMacOS, rmFails, now,
                   validationCache, api, launch>>

----------------------------------------------------------------------------
(* Deep health check *)

AnthropicUrl == "https://api.anthropic.com"
DefaultModel == "claude-sonnet-4-20250514"

\* provider.envVars?.[key] : "" when the provider does not assign it
EnvVar(provider, key) ==
    IF key \in DOMAIN provider.envVars THEN provider.envVars[key] ELSE ""

\* the loop over Object.entries(provider.envMappings): the value of the first
\* source key that has one
RECURSIVE firstMapped(_)
firstMapped(entries) ==
    IF entries = <<>> THEN ""
    ELSE IF EnvValue(Head(entries)[1]) # "" THEN EnvValue(Head(entries)[1])
    ELSE firstMapped(Tail(entries))

\* resolveApiKey : "" for undefined.  A provider that names an envKey gets
\* the value of that variable, set or not
resolveApiKey(provider) ==
    IF firstMapped(provider.envMappings) # ""
    THEN firstMapped(provider.envMappings)
    ELSE IF provider.validation.envKey # ""
    THEN EnvValue(provider.validation.envKey)
    ELSE EnvValue("ANTHROPIC_API_KEY")

resolveBaseUrl(provider) ==
    IF EnvVar(provider, "ANTHROPIC_BASE_URL") # ""
    THEN EnvVar(provider, "ANTHROPIC_BASE_URL")
    ELSE IF provider.validation.type = "http" /\ provider.validation.url # ""
    THEN provider.validation.url
    ELSE AnthropicUrl

\* the model the request names
modelNameOf(provider) ==
    IF EnvVar(provider, "ANTHROPIC_DEFAULT_SONNET_MODEL") # ""
    THEN EnvVar(provider, "ANTHROPIC_DEFAULT_SONNET_MODEL")
    ELSE IF EnvVar(provider, "ANTHROPIC_MODEL") # ""
    THEN EnvVar(provider, "ANTHROPIC_MODEL")
    ELSE IF provider.models # <<>> THEN provider.models[1]
    ELSE DefaultModel

\* a request handed to fetch: by which check, for the basic validation or for
\* the deep check, and what it carries
Request(i, purpose, method, url, key) ==
    [of |-> i, purpose |-> purpose, method |-> method, url |-> url, key |-> key]

\* what comes back: a response with its status and the error.message of its
\* JSON body ("" when the body has none), the abort of the timer, or a
\* failed connection
Response(status, detail) == [kind |-> "response", status |-> status, detail |-> detail]
Aborted == [kind |-> "timeout", status |-> 0, detail |-> ""]
Failed == [kind |-> "refused", status |-> 0, detail |-> "fetch failed"]

\* `${basicResult.message} (deep check not supported for ${provider.type})`
annotated(provider, basicResult) ==
    Merge(basicResult,
          [message |-> basicResult.message \o
                       <<" (deep check not supported for ", provider.type, ")">>])

\* mutant: every failure status gets the same text
statusMessage_Generic(status, modelName) == <<"HTTP ", ToString(status)>>

\* the message chosen from the status before the body is looked at
statusMessage(status, modelName) ==
    IF status = 401 THEN <<"Authentication failed">>
    ELSE IF status = 403 THEN <<"Access forbidden">>
    ELSE IF status = 404 THEN <<"Model not found: ", modelName>>
    ELSE IF status >= 500 THEN <<"Server error">>
    ELSE <<"HTTP ", ToString(status)>>

\* the result of the GET of a proxy provider
proxyResult(provider, reply) ==
    IF reply.kind = "response"
    THEN [valid |-> TRUE, message |-> <<"Proxy reachable (auth via Claude CLI)">>,
          latencyMs |-> "measured", modelAvailable |-> TRUE,
          modelName |-> IF EnvVar(provider, "ANTHROPIC_DEFAULT_SONNET_MODEL") # ""
                        THEN EnvVar(provider, "ANTHROPIC_DEFAULT_SONNET_MODEL")
                        ELSE IF provider.models # <<>> THEN provider.models[1]
                        ELSE ""]
    ELSE [valid |-> FALSE,
          message |-> IF reply.kind = "timeout" THEN <<"Proxy timeout">>
                      ELSE <<"Proxy not reachable">>,
          modelAvailable |-> FALSE]

\* the result of the POST of an api provider
apiResult(provider, reply) ==
    LET modelName == modelNameOf(provider)
    IN  IF reply.kind = "response"
        THEN IF reply.status \in 200..299
             THEN [valid |-> TRUE, message |-> <<"API responding">>,
                   latencyMs |-> "measured", modelAvailable |-> TRUE,
                   modelName |-> modelName]
             ELSE IF reply.status = 429
             THEN [valid |-> TRUE, message |-> <<"API responding (rate limited)">>,
                   latencyMs |-> "measured", modelAvailable |-> TRUE,
                   modelName |-> modelName]
             ELSE [valid |-> FALSE,
                   message |-> IF reply.detail # "" THEN <<reply.detail>>
                               ELSE statusMessage(reply.status, modelName),
                   latencyMs |-> "measured", modelAvailable |-> FALSE,
                   modelName |-> modelName, error |-> reply.detail]
        ELSE LET errorMessage == IF reply.kind = "timeout"
                                 THEN <<"Request timeout (15s)">>
                                 ELSE <<reply.detail>>
             IN  [valid |-> FALSE, message |-> errorMessage,
                  modelAvailable |-> FALSE, modelName |-> modelName,
                  error |-> errorMessage]

\* mutant: a gateway is probed like an api provider
deepStep_GatewayToo(provider, basicResult, i) ==
    IF ~basicResult.valid
    THEN [sends |-> <<>>, result |-> <<Merge(basicResult, [modelAvailable |-> FALSE])>>]
    ELSE IF provider.type = "standalone"
    THEN [sends |-> <<>>, result |-> <<annotated(provider, basicResult)>>]
    ELSE IF provider.type = "proxy"
    THEN [sends |-> <<Request(i, "deep", "GET", <<resolveBaseUrl(provider)>>, "")>>,
          result |-> <<>>]
    ELSE IF resolveApiKey(provider) = ""
    THEN [sends |-> <<>>,
          result |-> << [valid |-> FALSE,
                         message |-> <<"No API key found for health check">>,
                         modelAvailable |-> FALSE] >>]
    ELSE [sends |-> <<Request(i, "deep", "POST",
                              <<resolveBaseUrl(provider), "/v1/messages">>,
                              resolveApiKey(provider))>>,
          result |-> <<>>]

\* performHealthCheck from the basic result on, up to its return or to the
\* await of its request: the request it sends, or the result it returns
deepStep(provider, basicResult, i) ==
    IF ~basicResult.valid
    THEN [sends |-> <<>>, result |-> <<Merge(basicResult, [modelAvailable |-> FALSE])>>]
    ELSE IF provider.type = "standalone"
    THEN [sends |-> <<>>, result |-> <<annotated(provider, basicResult)>>]
    ELSE IF provider.type = "proxy"
    THEN [sends |-> <<Request(i, "deep", "GET", <<resolveBaseUrl(provider)>>, "")>>,
          result |-> <<>>]
    ELSE IF provider.type = "gateway"
    THEN [sends |-> <<>>, result |-> <<annotated(provider, basicResult)>>]
    ELSE IF resolveApiKey(provider) = ""
    THEN [sends |-> <<>>,
          result |-> << [valid |-> FALSE,
                         message |-> <<"No API key found for health check">>,
                         modelAvailable |-> FALSE] >>]
    ELSE [sends |-> <<Request(i, "deep", "POST",
                              <<resolveBaseUrl(provider), "/v1/messages">>,
                              resolveApiKey(provider))>>,
          result |-> <<>>]

NoHealth ==
    [running |-> FALSE, providers |-> <<>>, next |-> 1, status |-> <<>>,
     basic |-> <<>>, reply |-> <<>>, outcome |-> <<>>, requests |-> <<>>,
     results |-> << >>, returned |-> FALSE]

\* mutant: the checks are started without waiting for the one before
CanBegin_FanOut ==
    /\ health.running
    /\ health.next <= Len(health.providers)

\* for (const provider of providers) { await performHealthCheck(provider) } :
\* the next iteration starts when the one before it has returned
CanBegin ==
    /\ health.running
    /\ health.next <= Len(health.providers)
    /\ \A j \in 1..(health.next - 1) : health.status[j] = "done"

\* a caller calls healthCheckAllProviders(providers)
CallHealthCheckAll(providers) ==
    /\ ~health.running
    /\ ~health.returned
    /\ health' = [running |-> TRUE, providers |-> providers, next |-> 1,
                  status |-> [i \in 1..Len(providers) |-> "unstarted"],
                  basic |-> [i \in 1..Len(providers) |-> <<>>],
                  reply |-> [i \in 1..Len(providers) |-> <<>>],
                  outcome |-> [i \in 1..Len(providers) |-> <<>>],
                  requests |-> <<>>, results |-> << >>, returned |-> FALSE]
    /\ UNCHANGED <<world, now, validationCache, calls, lastGetAll, batch, lastEdit,
                   launch>>

\* performHealthCheck(provider) from validateProvider's result on, continuing
\* from the record `started`: it sends its deep request and waits, or it
\* returns and the loop stores the result
AfterBasic(i, basicResult, started) ==
    LET provider == health.providers[i]
        step == deepStep(provider, basicResult, i)
    IN  /\ validationCache' = setCachedResult(validationCache, provider.id,
                                              basicResult, now)
        /\ health' =
             IF step.result = <<>>
             THEN [started EXCEPT !.basic[i] = <<basicResult>>,
                                  !.status[i] = "deep",
                                  !.requests = @ \o step.sends]
             ELSE [started EXCEPT !.basic[i] = <<basicResult>>,
                                  !.status[i] = "done",
                                  !.outcome[i] = step.result,
                                  !.results = [id \in (DOMAIN @) \cup {provider.id} |->
                                                  IF id = provider.id THEN step.result[1]
                                                  ELSE @[id]]]

\* the loop calls performHealthCheck(provider), which calls
\* validateProvider(provider, true): the cache is not read; an http
\* validation sends its GET and waits, the other kinds answer at once
BeginCheck ==
    /\ CanBegin
    /\ LET i == health.next
           provider == health.providers[i]
       IN  IF provider.validation.type = "http" /\ provider.validation.url # ""
           THEN /\ health' = [health EXCEPT
                                !.next = i + 1,
                                !.status[i] = "basic",
                                !.requests = Append(@, Request(i, "basic", "GET",
                                                 <<provider.validation.url>>, ""))]
                /\ UNCHANGED validationCache
           ELSE AfterBasic(i, underlyingCheck(provider),
                           [health EXCEPT !.next = i + 1])
    /\ UNCHANGED <<world, now, calls, lastGetAll, batch, lastEdit, launch>>

\* the GET of the basic validation settles or is aborted after 2000 ms
BasicSettles(i) ==
    /\ health.running
    /\ i \in 1..Len(health.providers)
    /\ health.status[i] = "basic"
    /\ AfterBasic(i, underlyingCheck(health.providers[i]), health)
    /\ UNCHANGED <<world, now, calls, lastGetAll, batch, lastEdit, launch>>

\* the deep request settles, or is aborted (5 s for the GET, 15 s for the
\* POST): performHealthCheck returns and the loop stores the result
DeepSettles(i, reply) ==
    /\ health.running
    /\ i \in 1..Len(health.providers)
    /\ health.status[i] = "deep"
    /\ LET provider == health.providers[i]
           result == IF provider.type = "proxy" THEN proxyResult(provider, reply)
                     ELSE apiResult(provider, reply)
       IN  health' = [health EXCEPT
                        !.status[i] = "done",
                        !.reply[i] = <<reply>>,
                        !.outcome[i] = <<result>>,
                        !.results = [id \in (DOMAIN @) \cup {provider.id} |->
                                        IF id = provider.id THEN result ELSE @[id]]]
    /\ UNCHANGED <<world, now, validationCache, calls, lastGetAll, batch, lastEdit,
                   launch>>

\* the loop is over: return results
ReturnHealth ==
    /\ health.running
    /\ \A i \in 1..Len(health.providers) : health.status[i] = "done"
    /\ health' = [health EXCEPT !.running = FALSE, !.returned = TRUE]
    /\ UNCHANGED <<world, now, validationCache, calls, lastGetAll, batch, lastEdit,
                   launch>>

----------------------------------------------------------------------------
(* Fallback Resolver *)

\* mutant: the first candidate is returned whatever its validation says
firstValid_Unchecked(candidates, cache, t) ==
    IF candidates = <<>> THEN [provider |-> <<>>, cache |-> cache]
    ELSE [provider |-> <<Head(candidates)>>,
          cache |-> validateProvider(Head(candidates), FALSE, cache, t).cache]

\* the for-loop of findFallbackProvider over the candidates
RECURSIVE firstValid(_, _, _)
firstValid(candidates, cache, t) ==
    IF candidates = <<>> THEN [provider |-> <<>>, cache |-> cache]
    ELSE LET v == validateProvider(Head(candidates), FALSE, cache, t)
         IN  IF v.result.valid
             THEN [provider |-> <<Head(candidates)>>, cache |-> v.cache]
             ELSE firstValid(Tail(candidates), v.cache, t)

\* mutant: the tried list is not consulted
fallbackCandidates_AnyTried(currentProvider, triedProviders) ==
    SelectSeq(getAllProviders,
              LAMBDA p : p.category = currentProvider.category)

\* mutant: the category is not compared
fallbackCandidates_AnyCategory(currentProvider, triedProviders) ==
    SelectSeq(getAllProviders, LAMBDA p : ~Includes(triedProviders, p.id))

fallbackCandidates(currentProvider, triedProviders) ==
    SelectSeq(getAllProviders,
              LAMBDA p : p.category = currentProvider.category
                         /\ ~Includes(triedProviders, p.id))

findFallbackProvider(currentProvider, triedProviders, cache, t) ==
    firstValid(fallbackCandidates(currentProvider, triedProviders), cache, t)

----------------------------------------------------------------------------
(* Launcher *)

\* mutant: every failed child is reported as exit code 1
ExitCodeOf_One(code) == IF code \in {NullCode, 0} THEN 0 ELSE 1

\* process.exit(code ?? 0)
ExitCodeOf(code) == IF code = NullCode THEN 0 ELSE code

\* mutant: the first invocation starts with the empty default of launchStandalone
initialTried_Empty(provider) == <<>>

\* triedProviders = [provider.id] : the default of the first invocation
initialTried(provider) == <<provider.id>>

\* mutant: the selected id is not added
nextTried_Same(triedProviders, id) == triedProviders

\* [...triedProviders, nextProvider.id]
nextTried(triedProviders, id) == Append(triedProviders, id)

\* mutant: the fallback option is not looked at
shouldFallback_Always(fallback, code) == code # 0

\* if (fallback && code !== 0)
shouldFallback(fallback, code) == fallback /\ code # 0

\* mutant: cleanup() is left to the error handler
exitCleans_Never(via) == FALSE

\* the exit handler of launchClaude starts with cleanup(), that of
\* launchStandalone has none
exitCleans(via) == via = "claude"

Child(provider, fallback, triedProviders, via, command, tempDir, ok, gate) ==
    [provider |-> provider, fallback |-> fallback,
     triedProviders |-> triedProviders,
     via |-> via, command |-> command, tempDir |-> tempDir,
     status |-> IF ok THEN "running" ELSE "spawnfail",
     code |-> NullCode, cleaned |-> FALSE, consulted |-> FALSE,
     signals |-> <<>>, gate |-> gate]

ProcessExit(code) ==
    /\ pc' = "exited"
    /\ parentExit' = code

\* spawn(...) followed by child.on / process.on : the parent keeps running
SpawnChild(child) ==
    /\ children' = Append(children, child)
    /\ sigHandlers' = Append(sigHandlers, Len(children) + 1)
    /\ tempDirs' = IF child.tempDir THEN tempDirs \cup {Len(children) + 1}
                   ELSE tempDirs
    /\ pc' = "live"
    /\ parentExit' = parentExit

(* The environment and the arguments of a launch.  A value of an environment
   variable is a sequence of pieces of text, Unset when the variable does
   not exist. *)

Unset == << >>

\* if (value) : an unset variable and the empty string are falsy
Truthy(value) == value # Unset /\ value # <<"">>

HomeDir == "/home/user"            \* homedir()
ShimDir == "/tmp/agent-cli-uuid"   \* join(tmpdir(), `agent-cli-${randomUUID()}`)

\* isWindows ? ";" : ":" ; the separator is read only where a shim
\* directory exists, which is on macOS
PATH_SEPARATOR == ":"

\* mutant: the path is passed as it is written
expandHome_Raw(path) == path

\* expandHome : a leading "~" is replaced by the home directory
expandHome(path) ==
    IF path # <<>> /\ Head(path) = "~" THEN <<HomeDir>> \o Tail(path) ELSE path

\* mutant: the shim is made on every platform
createFakeSecurityPath_Everywhere == <<ShimDir>>

\* createFakeSecurityPath : null (<<>>) unless on macOS
createFakeSecurityPath == IF ~isMacOS THEN <<>> ELSE <<ShimDir>>

\* mutant: the target is assigned whether or not the source has a value
applyMapping_Always(env, entry) == [env EXCEPT ![entry[2]] = processEnv[entry[1]]]

\* one [sourceKey, targetKey] entry of envMappings
applyMapping(env, entry) ==
    IF Truthy(processEnv[entry[1]])
    THEN [env EXCEPT ![entry[2]] = processEnv[entry[1]]]
    ELSE env

\* for (const [sourceKey, targetKey] of Object.entries(provider.envMappings))
RECURSIVE applyMappings(_, _)
applyMappings(env, entries) ==
    IF entries = <<>> THEN env
    ELSE applyMappings(applyMapping(env, Head(entries)), Tail(entries))

\* mutant: the variables are assigned in process.env itself, so that the next
\* attempt starts from what the attempt before it was given
buildEnv_InPlace(provider, tempDir) ==
    LET base == IF children # <<>> /\ "env" \in DOMAIN children[Len(children)]
                THEN children[Len(children)].env ELSE processEnv
        named == [base EXCEPT
                     !["CLAUDE_PROVIDER"] = <<provider.name>>,
                     !["CLAUDE_CONFIG_DIR"] = expandHome(provider.configDir)]
        assigned == [k \in DOMAIN named |->
                        IF k \in DOMAIN provider.envVars
                        THEN provider.envVars[k] ELSE named[k]]
        mapped == applyMappings(assigned, provider.envMappings)
    IN  IF tempDir # <<>>
        THEN [mapped EXCEPT !["PATH"] =
                 tempDir \o <<PATH_SEPARATOR>> \o
                 (IF mapped["PATH"] = Unset THEN <<"undefined">> ELSE mapped["PATH"])]
        ELSE mapped

\* buildEnv : the copy of process.env, the identity and the config root,
\* then envVars, then the mappings, then the shim directory in front of PATH
buildEnv(provider, tempDir) ==
    LET named == [processEnv EXCEPT
                     !["CLAUDE_PROVIDER"] = <<provider.name>>,
                     !["CLAUDE_CONFIG_DIR"] = expandHome(provider.configDir)]
        assigned == [k \in DOMAIN named |->
                        IF k \in DOMAIN provider.envVars
                        THEN provider.envVars[k] ELSE named[k]]
        mapped == applyMappings(assigned, provider.envMappings)
    IN  IF tempDir # <<>>
        THEN [mapped EXCEPT !["PATH"] =
                 tempDir \o <<PATH_SEPARATOR>> \o
                 (IF mapped["PATH"] = Unset THEN <<"undefined">> ELSE mapped["PATH"])]
        ELSE mapped

\* the child with the environment spawn is given; the environment is
\* modelled for the providers that carry the fields buildEnv reads
WithEnv(child, env) ==
    IF "envVars" \in DOMAIN child.provider THEN Merge(child, [env |-> env]) ELSE child

\* launchStandalone : spawn(undefined) throws when the provider has no command
launchStandalone(provider, fallback, triedProviders, ok, gate) ==
    IF provider.command = ""
    THEN /\ ProcessExit(UnhandledRejectionExit)
         /\ UNCHANGED <<children, sigHandlers, tempDirs>>
    ELSE SpawnChild(WithEnv(Child(provider, fallback, triedProviders, "standalone",
                                  provider.command, FALSE, ok, gate),
                            processEnv))

\* launchClaude : standalone providers with a command go to launchStandalone,
\* the others get the shim directory (macOS only) and the shared binary
launchClaude(provider, fallback, triedProviders, ok, gate) ==
    IF provider.type = "standalone" /\ provider.command # ""
    THEN launchStandalone(provider, fallback, triedProviders, ok, gate)
    ELSE SpawnChild(WithEnv(Child(provider, fallback, triedProviders, "claude",
                                  "claude", isMacOS, ok, gate),
                            buildEnv(provider, createFakeSecurityPath)))

\* agent <provider> [--fallback] : the default command with a provider argument
CliLaunch(providerArg, fallback, ok) ==
    /\ pc = "start"
    /\ LET provider == getProviderById(providerArg)
       IN  IF provider = <<>>
           THEN /\ ProcessExit(1)
                /\ log' = Append(log, "unknown-provider")
                /\ UNCHANGED <<children, sigHandlers, tempDirs>>
           ELSE /\ launchClaude(provider[1], fallback, initialTried(provider[1]), ok, <<>>)
                /\ log' = Append(log, "launching")
    /\ UNCHANGED <<world, api, now, validationCache, pending, received, lastResolve>>

\* finalArgs of launchClaude : unshift("--continue"), then
\* unshift("--dangerously-skip-permissions")
claudeArgs(args, continueSession, skipPermissions) ==
    (IF skipPermissions THEN <<"--dangerously-skip-permissions">> ELSE <<>>) \o
    (IF continueSession THEN <<"--continue">> ELSE <<>>) \o
    args

\* mutant: the user's arguments come first
standaloneArgs_UserFirst(provider, args) == args \o provider.defaultArgs

\* finalArgs of launchStandalone : [...(provider.defaultArgs || []), ...args]
standaloneArgs(provider, args) == provider.defaultArgs \o args

LaunchOptions(provider, args, continueSession, skipPermissions, fallback) ==
    [provider |-> provider, args |-> args, continueSession |-> continueSession,
     skipPermissions |-> skipPermissions, fallback |-> fallback]

\* what launchClaude hands to spawn, and what it has made on disk by then
spawnOf(options) ==
    LET provider == options.provider
    IN  IF provider.type = "standalone" /\ provider.command # ""
        THEN [command |-> provider.command,
              args |-> standaloneArgs(provider, options.args),
              env |-> processEnv,
              shim |-> <<>>,
              made |-> {}]
        ELSE LET tempDir == createFakeSecurityPath
             IN  [command |-> "claude",
                  args |-> claudeArgs(options.args, options.continueSession,
                                      options.skipPermissions),
                  env |-> buildEnv(provider, tempDir),
                  shim |-> tempDir,
                  made |-> (IF tempDir = <<>> THEN {}
                            ELSE {tempDir, tempDir \o <<"/security">>})
                           \cup {expandHome(provider.configDir)}]

\* launchClaude(options) with everything it passes on: the child is recorded
\* with its command line, its environment and the options it came from
Launch(options, ok) ==
    /\ pc = "start"
    /\ LET provider == options.provider
           call == spawnOf(options)
           via == IF provider.type = "standalone" /\ provider.command # ""
                  THEN "standalone" ELSE "claude"
       IN  SpawnChild(Merge(Child(provider, options.fallback, initialTried(provider),
                                  via, call.command, call.shim # <<>>, ok, <<>>),
                            [args |-> call.args, env |-> call.env,
                             shim |-> call.shim, made |-> call.made,
                             options |-> options]))
    /\ log' = Append(log, "launching")
    /\ UNCHANGED <<world, api, now, validationCache, pending, received, lastResolve>>

\* mutant: cleanup() removes nothing
Cleanup_Keep(k) == tempDirs

\* cleanup() : rmSync of the shim directory; when it throws the error is
\* ignored and the directory stays
Cleanup(k) ==
    IF children[k].tempDir /\ ~rmFails THEN tempDirs \ {k} ELSE tempDirs

\* child.on("exit") up to the await of findFallbackProvider
ChildExit(k, code) ==
    /\ pc = "live"
    /\ k \in 1..Len(children)
    /\ children[k].status = "running"
    /\ LET c == children[k]
           consult == shouldFallback(c.fallback, code)
       IN  /\ children' = [children EXCEPT ![k] =
                   [c EXCEPT !.status = "exited", !.code = code,
                             !.cleaned = exitCleans(c.via),
                             !.consulted = consult]]
           /\ tempDirs' = IF exitCleans(c.via) THEN Cleanup(k) ELSE tempDirs
           /\ IF consult
              THEN /\ log' = Append(log, "trying-fallback")
                   /\ pending' = pending \cup {k}
                   /\ UNCHANGED <<pc, parentExit>>
              ELSE /\ ProcessExit(ExitCodeOf(code))
                   /\ UNCHANGED <<log, pending>>
    /\ UNCHANGED <<world, api, now, validationCache, sigHandlers, received, lastResolve>>

\* child.on("exit") from the await on: fall back or give up
Resolve(k, ok) ==
    /\ pc = "live"
    /\ k \in pending
    /\ \E c \in {children[k]} :
       \E found \in {findFallbackProvider(c.provider, c.triedProviders,
                                          validationCache, now)} :
           /\ validationCache' = found.cache
           /\ lastResolve' = [called |-> TRUE, child |-> k,
                              current |-> c.provider,
                              triedProviders |-> c.triedProviders,
                              all |-> getAllProviders,
                              result |-> found.provider]
           /\ pending' = pending \ {k}
           /\ IF found.provider # <<>>
              THEN \E next \in {found.provider[1]} :
                   \E tried \in {nextTried(c.triedProviders, next.id)} :
                   \E gate \in {<<found.cache[next.id].result>>} :
                       /\ log' = Append(log, "falling-back")
                       /\ IF c.via = "claude"
                          THEN launchClaude(next, TRUE, tried, ok, gate)
                          ELSE launchStandalone(next, TRUE, tried, ok, gate)
              ELSE /\ log' = Append(log, "no-more-fallback")
                   /\ ProcessExit(ExitCodeOf(c.code))
                   /\ UNCHANGED <<children, sigHandlers, tempDirs>>
    /\ UNCHANGED <<world, api, now, received>>

\* mutant: a spawn error ends the parent the way a clean exit does
ChildError_Quiet(k) ==
    /\ pc = "live"
    /\ k \in 1..Len(children)
    /\ children[k].status = "spawnfail"
    /\ children' = [children EXCEPT ![k] =
            [children[k] EXCEPT !.status = "errored",
                                !.cleaned = (children[k].via = "claude")]]
    /\ tempDirs' = IF children[k].via = "claude" THEN Cleanup(k) ELSE tempDirs
    /\ ProcessExit(0)
    /\ UNCHANGED <<world, api, now, validationCache, pending, sigHandlers, received,
                   lastResolve, log>>

\* mutant: a spawn error is handled as a failed run
ChildError_Fallback(k) ==
    /\ pc = "live"
    /\ k \in 1..Len(children)
    /\ children[k].status = "spawnfail"
    /\ children' = [children EXCEPT ![k] =
            [children[k] EXCEPT !.status = "errored",
                                !.cleaned = (children[k].via = "claude"),
                                !.consulted = children[k].fallback]]
    /\ tempDirs' = IF children[k].via = "claude" THEN Cleanup(k) ELSE tempDirs
    /\ log' = Append(log, "failed-to-start")
    /\ IF children[k].fallback
       THEN /\ pending' = pending \cup {k}
            /\ UNCHANGED <<pc, parentExit>>
       ELSE /\ ProcessExit(1)
            /\ UNCHANGED pending
    /\ UNCHANGED <<world, api, now, validationCache, sigHandlers, received,
                   lastResolve>>

\* child.on("error") : the executable could not be started
ChildError(k) ==
    /\ pc = "live"
    /\ k \in 1..Len(children)
    /\ children[k].status = "spawnfail"
    /\ children' = [children EXCEPT ![k] =
            [children[k] EXCEPT !.status = "errored",
                                !.cleaned = (children[k].via = "claude")]]
    /\ tempDirs' = IF children[k].via = "claude" THEN Cleanup(k) ELSE tempDirs
    /\ log' = Append(log, "failed-to-start")
    /\ ProcessExit(1)
    /\ UNCHANGED <<world, api, now, validationCache, pending, sigHandlers, received,
                   lastResolve>>

\* mutant: the signal is sent whether or not the child has exited
Kill_Stale(child, sig) == [child EXCEPT !.signals = Append(@, sig)]

\* mutant: every forwarded signal is sent as SIGTERM, the default of kill()
Kill_Default(child, sig) ==
    IF child.status = "running"
    THEN [child EXCEPT !.signals = Append(@, "SIGTERM")]
    ELSE child

\* child.kill(sig) : delivered only while the ChildProcess still has its handle
Kill(child, sig) ==
    IF child.status = "running"
    THEN [child EXCEPT !.signals = Append(@, sig)]
    ELSE child

\* the parent receives SIGINT or SIGTERM: every registered listener runs
ParentSignal(sig) ==
    /\ pc \in {"start", "live"}
    /\ Len(received) < MaxSignals
    /\ received' = Append(received, sig)
    /\ IF sigHandlers = <<>>
       THEN /\ ProcessExit(KilledBySignal)
            /\ UNCHANGED children
       ELSE /\ children' = [i \in 1..Len(children) |->
                               IF Includes(sigHandlers, i)
                               THEN Kill(children[i], sig) ELSE children[i]]
            /\ UNCHANGED <<pc, parentExit>>
    /\ UNCHANGED <<world, api, now, validationCache, pending, sigHandlers, tempDirs,
                   log, lastResolve>>

----------------------------------------------------------------------------

NoResolve == [called |-> FALSE, child |-> 0, current |-> <<>>,
              triedProviders |-> <<>>, all |-> <<>>, result |-> <<>>]

\* the stored overrides and disabled ids that go with a provider list
Edits ==
    { [overrides |-> << >>, disabled |-> <<>>],
      [overrides |-> [zai |-> [category |-> "local"]], disabled |-> <<>>],
      [overrides |-> << >>, disabled |-> <<"gemini">>] }

Configs ==
    { [providers |-> ps, overrides |-> e.overrides, disabled |-> e.disabled] :
        ps \in SeqsUpTo(ProviderPool, MaxProviders), e \in Edits }

Init ==
    /\ config \in Configs
    /\ processEnv \in [EnvNames -> {"", "sk-1"}]
    /\ network \in [Urls -> {"ok", "timeout"}]
    /\ which \in [Commands -> {0, 1}]
    /\ isMacOS \in BOOLEAN
    /\ rmFails = FALSE
    /\ now = 0
    /\ validationCache = NoCache
    /\ pc = "start"
    /\ pending = {}
    /\ children = <<>>
    /\ sigHandlers = <<>>
    /\ received = <<>>
    /\ tempDirs = {}
    /\ log = <<>>
    /\ lastResolve = NoResolve
    /\ parentExit = NoExit
    /\ calls = <<>>
    /\ lastGetAll = NoGetAll
    /\ batch = NoBatch
    /\ health = NoHealth
    /\ lastEdit = NoEdit

Next ==
    \/ \E id \in PoolIds, fb \in BOOLEAN, ok \in BOOLEAN : CliLaunch(id, fb, ok)
    \/ \E k \in 1..Len(children), code \in ExitCodes : ChildExit(k, code)
    \/ \E k \in pending, ok \in BOOLEAN : Resolve(k, ok)
    \/ \E k \in 1..Len(children) : ChildError(k)
    \/ \E sig \in Signals : ParentSignal(sig)

Spec == Init /\ [][Next]_vars

\* every spawned child exits or fails to spawn, and the await of the
\* resolver returns (its checks are synchronous or time out)
FairInit ==
    /\ Init
    /\ config.overrides = << >>
    /\ config.disabled = <<>>
    /\ ~isMacOS

\* the events of one chain: launch, child events, resolver
ChainNext ==
    \/ \E id \in PoolIds, fb \in BOOLEAN, ok \in BOOLEAN : CliLaunch(id, fb, ok)
    \/ \E k \in 1..Len(children), code \in ExitCodes : ChildExit(k, code)
    \/ \E k \in pending, ok \in BOOLEAN : Resolve(k, ok)
    \/ \E k \in 1..Len(children) : ChildError(k)

FairSpec ==
    /\ FairInit
    /\ [][ChainNext]_vars
    /\ WF_vars(\E k \in 1..Len(children), code \in ExitCodes : ChildExit(k, code))
    /\ WF_vars(\E k \in 1..Len(children) : ChildError(k))
    /\ WF_vars(\E k \in pending, ok \in BOOLEAN : Resolve(k, ok))

\* the id another invocation of the CLI disables and enables meanwhile
EditedIds == {"gemini"}

\* the chain while the stored config is edited from outside: `agent
\* providers disable/enable` run in another terminal
LiveInit ==
    /\ Init
    /\ config.overrides = << >>
    /\ processEnv = [k \in EnvNames |-> "sk-1"]
    /\ network = [u \in Urls |-> "ok"]
    /\ ~isMacOS

LiveNext ==
    \/ ChainNext
    \/ \E id \in EditedIds : pc = "live" /\ disableProvider(id)
    \/ \E id \in EditedIds : pc = "live" /\ enableProvider(id)

LiveSpec == LiveInit /\ [][LiveNext]_vars

\* the chain on macOS, where every attempt through the shared binary has a
\* shim directory whose removal succeeds or fails
CleanupInit ==
    /\ config \in { c \in Configs : c.disabled = <<>> }
    /\ processEnv \in [EnvNames -> {"", "sk-1"}]
    /\ network \in [Urls -> {"ok", "timeout"}]
    /\ which \in [Commands -> {0, 1}]
    /\ isMacOS = TRUE
    /\ rmFails \in BOOLEAN
    /\ now = 0
    /\ validationCache = NoCache
    /\ pc = "start"
    /\ pending = {}
    /\ children = <<>>
    /\ sigHandlers = <<>>
    /\ received = <<>>
    /\ tempDirs = {}
    /\ log = <<>>
    /\ lastResolve = NoResolve
    /\ parentExit = NoExit
    /\ calls = <<>>
    /\ lastGetAll = NoGetAll
    /\ batch = NoBatch
    /\ health = NoHealth
    /\ lastEdit = NoEdit

CleanupSpec == CleanupInit /\ [][ChainNext]_vars

\* the launcher before any launch: the validator's callers run on their own
Idle ==
    /\ config = [providers |-> <<>>, overrides |-> << >>, disabled |-> <<>>]
    /\ isMacOS = FALSE
    /\ rmFails = FALSE
    /\ pc = "start"
    /\ pending = {}
    /\ children = <<>>
    /\ sigHandlers = <<>>
    /\ received = <<>>
    /\ tempDirs = {}
    /\ log = <<>>
    /\ lastResolve = NoResolve
    /\ parentExit = NoExit

\* the providers the cache is exercised with
CachePool == { p \in ProviderPool : p.id \in {"zai", "ollama"} }

\* calls of the validator one after another while time passes and the
\* environment variables change
CacheInit ==
    /\ Idle
    /\ processEnv \in [EnvNames -> {"", "sk-1"}]
    /\ network \in [Urls -> {"ok", "timeout"}]
    /\ which = [c \in Commands |-> 0]
    /\ now = 0
    /\ validationCache = NoCache
    /\ calls = <<>>
    /\ lastGetAll = NoGetAll
    /\ batch = NoBatch
    /\ health = NoHealth
    /\ lastEdit = NoEdit

CacheNext ==
    \/ \E p \in CachePool, skipCache \in BOOLEAN : Validate(p, skipCache)
    \/ ClearCache
    \/ \E t \in TimePoints : Tick(t)
    \/ \E key \in EnvNames, value \in {"", "sk-1"} : SetEnv(key, value)

CacheSpec == CacheInit /\ [][CacheNext]_vars

\* one provider before and after its validation settings were edited: the
\* id stays, the kind and what it refers to change
KeyPool ==
    { Prov("zai", "anthropic", "api", "", Validation("env", "ZAI_API_KEY", "", "")),
      Prov("zai", "anthropic", "api", "", Validation("http", "", OllamaUrl, "")) }

\* calls of the validator for one id while its settings, the environment
\* and the time change
KeyedInit ==
    /\ Idle
    /\ processEnv \in [EnvNames -> {"", "sk-1"}]
    /\ network \in [Urls -> {"ok", "timeout"}]
    /\ which = [c \in Commands |-> 0]
    /\ now = 0
    /\ validationCache = NoCache
    /\ calls = <<>>
    /\ lastGetAll = NoGetAll
    /\ batch = NoBatch
    /\ health = NoHealth
    /\ lastEdit = NoEdit

KeyedNext ==
    \/ \E p \in KeyPool, skipCache \in BOOLEAN : Validate(p, skipCache)
    \/ \E t \in TimePoints : Tick(t)
    \/ \E key \in EnvNames, value \in {"", "sk-1"} : SetEnv(key, value)

KeyedSpec == KeyedInit /\ [][KeyedNext]_vars

\* providers of every validation kind, with and without the kind's setting
KindPool ==
    ProviderPool \cup
    { Prov("lmstudio", "local", "proxy", "", Validation("http", "", "", "")),
      Prov("vibe", "local", "standalone", "vibe", Validation("command", "", "", "")),
      Prov("mystery", "anthropic", "api", "", Validation("unknown", "", "", "")) }

\* all lists over S of length at most n
RECURSIVE ListsUpTo(_, _)
ListsUpTo(S, n) ==
    IF n = 0 THEN { <<>> }
    ELSE LET shorter == ListsUpTo(S, n - 1)
         IN  shorter \cup { Append(l, x) : l \in shorter, x \in S }

\* exit status of `which`: 0 found, 1 not found, 2 any other failure
WhichStatuses == {0, 1, 2}

\* one call of validateProvider or validateAllProviders in any environment
KindInit ==
    /\ Idle
    /\ processEnv \in [EnvNames -> {"", "sk-1"}]
    /\ network \in [Urls -> {"ok", "timeout", "refused"}]
    /\ which \in [Commands -> WhichStatuses]
    /\ now = 0
    /\ validationCache = NoCache
    /\ calls = <<>>
    /\ lastGetAll = NoGetAll
    /\ batch = NoBatch
    /\ health = NoHealth
    /\ lastEdit = NoEdit

KindNext ==
    \/ \E p \in KindPool, skipCache \in BOOLEAN :
          calls = <<>> /\ Validate(p, skipCache)
    \/ \E ps \in ListsUpTo(KindPool, MaxBatch) :
          calls = <<>> /\ ps # <<>> /\ ValidateAll(ps)

KindSpec == KindInit /\ [][KindNext]_vars

\* one validateAllProviders call, step by step, in any environment
BatchInit ==
    /\ Idle
    /\ processEnv \in [EnvNames -> {"", "sk-1"}]
    /\ network \in [Urls -> {"ok", "timeout", "refused"}]
    /\ which \in [Commands -> WhichStatuses]
    /\ now = 0
    /\ validationCache = NoCache
    /\ calls = <<>>
    /\ lastGetAll = NoGetAll
    /\ batch = NoBatch
    /\ health = NoHealth
    /\ lastEdit = NoEdit

BatchNext ==
    \/ \E ps \in ListsUpTo(KindPool, MaxBatch) : CallValidateAll(ps)
    \/ StartCheck
    \/ \E i \in 1..MaxBatch : WhichExits(i)
    \/ \E i \in 1..MaxBatch : FetchSettles(i)
    \/ \E i \in 1..MaxBatch : Resume(i)
    \/ ReturnAll

BatchSpec == BatchInit /\ [][BatchNext]_vars

\* raw entries of the config file: two different entries share the id zai
RegistryPool ==
    { p \in ProviderPool : p.id \in {"zai", "ollama"} } \cup
    { Prov("zai", "local", "proxy", "", Validation("http", "", OllamaUrl, "")) }

RegistryIds == { p.id : p \in RegistryPool }

\* partial providers stored as overrides
Patches == { [category |-> "custom"], [id |-> "zai"] }

OverrideMaps == UNION { [D -> Patches] : D \in SUBSET RegistryIds }

\* the registry over every stored combination of raw providers (with
\* repeated ids), overrides and disabled ids
RegistryInit ==
    /\ config \in { [providers |-> ps, overrides |-> o, disabled |-> d] :
                       ps \in ListsUpTo(RegistryPool, MaxProviders),
                       o \in OverrideMaps,
                       d \in SeqsUpTo(RegistryIds, Cardinality(RegistryIds)) }
    /\ processEnv = [k \in EnvNames |-> ""]
    /\ network = [u \in Urls |-> "ok"]
    /\ which = [c \in Commands |-> 0]
    /\ isMacOS = FALSE
    /\ rmFails = FALSE
    /\ now = 0
    /\ validationCache = NoCache
    /\ pc = "start"
    /\ pending = {}
    /\ children = <<>>
    /\ sigHandlers = <<>>
    /\ received = <<>>
    /\ tempDirs = {}
    /\ log = <<>>
    /\ lastResolve = NoResolve
    /\ parentExit = NoExit
    /\ calls = <<>>
    /\ lastGetAll = NoGetAll
    /\ batch = NoBatch
    /\ health = NoHealth
    /\ lastEdit = NoEdit

RegistryNext ==
    \/ GetAll
    \/ \E id \in RegistryIds : disableProvider(id)
    \/ \E id \in RegistryIds : enableProvider(id)

RegistrySpec == RegistryInit /\ [][RegistryNext]_vars

\* longest list stored in a document of the config file
MaxItems == 2

\* what a list of providers in the file holds: a provider, or null
FileItems == { p \in ProviderPool : p.id = "zai" } \cup { JNull }

FileLists == { JArray(l) : l \in ListsUpTo(FileItems, MaxItems) }

\* documents of the config file: text that does not parse, values that are
\* no object, legacy lists, and objects whose properties are of the
\* expected shape or not
Documents ==
    { Unparseable, JNull, JNumber, JString("providers") } \cup
    FileLists \cup
    { JObject(ps, os, ds) :
        ps \in { Absent, JNull, JString("zai"), EmptyObject } \cup FileLists,
        os \in { Absent, JNumber },
        ds \in { Absent, JNumber, JArray(<<>>), JArray(<<JString("zai")>>) } }

FileInit ==
    /\ config \in Documents
    /\ processEnv = [k \in EnvNames |-> ""]
    /\ network = [u \in Urls |-> "ok"]
    /\ which = [c \in Commands |-> 0]
    /\ isMacOS = FALSE
    /\ rmFails = FALSE
    /\ now = 0
    /\ validationCache = NoCache
    /\ pc = "start"
    /\ pending = {}
    /\ children = <<>>
    /\ sigHandlers = <<>>
    /\ received = <<>>
    /\ tempDirs = {}
    /\ log = <<>>
    /\ lastResolve = NoResolve
    /\ parentExit = NoExit
    /\ calls = <<>>
    /\ lastGetAll = NoGetAll
    /\ batch = NoBatch
    /\ health = NoHealth
    /\ lastEdit = NoEdit

FileNext ==
    \/ GetAllFromFile
    \/ \E document \in Documents : EditFile(document)

FileSpec == FileInit /\ [][FileNext]_vars

HubUrl == "https://hub.example/health"

HealthDetails(envVars, envMappings, models) ==
    [envVars |-> envVars, envMappings |-> envMappings, models |-> models]

\* providers of every type with the fields the deep check reads: a mapping
\* whose source is not the validation's variable, no key setting at all, and
\* a reachability validation that names a key variable
DeepPool ==
    { Merge(Prov("zai", "anthropic", "api", "",
                 Validation("env", "ZAI_API_KEY", "", "")),
            HealthDetails([ANTHROPIC_BASE_URL |-> "https://api.z.ai",
                           ANTHROPIC_MODEL |-> "glm-4.6"],
                          << <<"Z_AI_API_KEY", "ANTHROPIC_AUTH_TOKEN">> >>, <<>>)),
      Merge(Prov("claude", "anthropic", "api", "",
                 Validation("env", "", "", "")),
            HealthDetails(<< >>, <<>>, <<"claude-opus-4">>)),
      Merge(Prov("hub", "anthropic", "api", "",
                 Validation("http", "HUB_API_KEY", HubUrl, "")),
            HealthDetails(<< >>, <<>>, <<>>)),
      Merge(Prov("ollama", "local", "proxy", "",
                 Validation("http", "", OllamaUrl, "")),
            HealthDetails([ANTHROPIC_BASE_URL |-> OllamaUrl], <<>>, <<"llama3">>)),
      Merge(Prov("relay", "anthropic", "gateway", "",
                 Validation("env", "ZAI_API_KEY", "", "")),
            HealthDetails([ANTHROPIC_BASE_URL |-> "https://relay.example"],
                          <<>>, <<>>)),
      Merge(Prov("codex", "local", "standalone", "codex",
                 Validation("command", "", "", "codex")),
            HealthDetails(<< >>, <<>>, <<>>)) }

\* the caller's environment: every key variable set or not, each with a
\* value of its own
DeepEnvs ==
    { [ZAI_API_KEY |-> a, Z_AI_API_KEY |-> b, HUB_API_KEY |-> c,
       ANTHROPIC_API_KEY |-> d] :
         a \in {"", "sk-zai"}, b \in {"", "sk-mapped"},
         c \in {"", "sk-hub"}, d \in {"", "sk-ant"} }

Statuses == {200, 401, 403, 404, 418, 429, 500, 503}

\* what a deep request can get back
Replies ==
    { Response(status, detail) :
        status \in Statuses, detail \in {"", "invalid x-api-key"} }
    \cup {Aborted, Failed}

\* one performHealthCheck call in any environment, with any reply
DeepInit ==
    /\ Idle
    /\ processEnv \in DeepEnvs
    /\ network \in [{OllamaUrl, HubUrl} -> {"ok", "timeout"}]
    /\ which \in [Commands -> {0, 1}]
    /\ now = 0
    /\ validationCache = NoCache
    /\ calls = <<>>
    /\ lastGetAll = NoGetAll
    /\ batch = NoBatch
    /\ health = NoHealth
    /\ lastEdit = NoEdit

DeepNext ==
    \/ \E p \in DeepPool : CallHealthCheckAll(<<p>>)
    \/ BeginCheck
    \/ BasicSettles(1)
    \/ \E reply \in Replies : DeepSettles(1, reply)
    \/ ReturnHealth

DeepSpec == DeepInit /\ [][DeepNext]_vars

\* longest provider list given to healthCheckAllProviders
MaxChecks == 2

FewReplies == { Response(200, ""), Response(401, "invalid x-api-key"), Aborted }

\* one healthCheckAllProviders call over a list of providers, step by step
HealthInit ==
    /\ Idle
    /\ processEnv = [ZAI_API_KEY |-> "sk-zai", Z_AI_API_KEY |-> "",
                     HUB_API_KEY |-> "sk-hub", ANTHROPIC_API_KEY |-> "sk-ant"]
    /\ network \in [{OllamaUrl, HubUrl} -> {"ok", "timeout"}]
    /\ which = [c \in Commands |-> 0]
    /\ now = 0
    /\ validationCache = NoCache
    /\ calls = <<>>
    /\ lastGetAll = NoGetAll
    /\ batch = NoBatch
    /\ health = NoHealth
    /\ lastEdit = NoEdit

HealthNext ==
    \/ \E ps \in SeqsUpTo(DeepPool, MaxChecks) : CallHealthCheckAll(ps)
    \/ BeginCheck
    \/ \E i \in 1..MaxChecks : BasicSettles(i)
    \/ \E i \in 1..MaxChecks, reply \in FewReplies : DeepSettles(i, reply)
    \/ ReturnHealth

HealthSpec == HealthInit /\ [][HealthNext]_vars

\* longest list of arguments the user gives on the command line
MaxArgs == 2

Details(name, configDir, envVars, envMappings, defaultArgs, continueArg, skipPermissionsArg) ==
    [name |-> name, configDir |-> configDir, envVars |-> envVars,
     envMappings |-> envMappings, defaultArgs |-> defaultArgs,
     continueArg |-> continueArg, skipPermissionsArg |-> skipPermissionsArg]

\* providers with the fields the launcher reads: with and without a home
\* placeholder, literal variables, mappings, flag mappings and a command
IsolationPool ==
    { Merge(Prov("zai", "anthropic", "api", "",
                 Validation("env", "ZAI_API_KEY", "", "")),
            Details("Z.AI", <<"~", "/.claude-zai">>,
                    [ANTHROPIC_BASE_URL |-> <<"https://api.z.ai">>],
                    << <<"ZAI_API_KEY", "ANTHROPIC_AUTH_TOKEN">> >>,
                    <<>>, "", "")),
      Merge(Prov("relay", "anthropic", "gateway", "",
                 Validation("env", "", "", "")),
            Details("Relay", <<"/srv/relay-config">>,
                    [ANTHROPIC_BASE_URL |-> <<"https://relay.example">>,
                     ANTHROPIC_AUTH_TOKEN |-> <<"placeholder">>],
                    << <<"ZAI_API_KEY", "ANTHROPIC_AUTH_TOKEN">> >>,
                    <<>>, "--resume", "-y")),
      Merge(Prov("ollama", "local", "proxy", "",
                 Validation("http", "", OllamaUrl, "")),
            Details("Ollama", <<"~", "/.claude-ollama">>,
                    [ANTHROPIC_BASE_URL |-> <<OllamaUrl>>],
                    <<>>, <<>>, "", "")),
      Merge(Prov("codex", "local", "standalone", "codex",
                 Validation("command", "", "", "codex")),
            Details("Codex", <<"~", "/.codex">>,
                    [ANTHROPIC_BASE_URL |-> <<"https://unused.example">>],
                    << <<"ZAI_API_KEY", "ANTHROPIC_AUTH_TOKEN">> >>,
                    <<"exec">>, "--resume", "--full-auto")),
      Merge(Prov("vibe", "local", "standalone", "",
                 Validation("command", "", "", "")),
            Details("Vibe", <<"~", "/.vibe">>,
                    [ANTHROPIC_BASE_URL |-> <<"https://vibe.example">>],
                    <<>>, <<"chat">>, "", "")) }

UserArgs == ListsUpTo({"-p", "hello"}, MaxArgs)

\* one launch from the command line in any environment of the caller
IsolationInit ==
    /\ config = [providers |-> <<>>, overrides |-> << >>, disabled |-> <<>>]
    /\ processEnv \in
          { [PATH |-> <<"/usr/bin">>,
             CLAUDE_PROVIDER |-> outer,
             CLAUDE_CONFIG_DIR |-> Unset,
             ZAI_API_KEY |-> key,
             ANTHROPIC_AUTH_TOKEN |-> token,
             ANTHROPIC_BASE_URL |-> Unset] :
               outer \in {Unset, <<"Claude">>},
               key \in {Unset, <<"">>, <<"sk-1">>},
               token \in {Unset, <<"sk-parent">>} }
    /\ network = [u \in Urls |-> "ok"]
    /\ which = [c \in Commands |-> 0]
    /\ isMacOS \in BOOLEAN
    /\ rmFails = FALSE
    /\ now = 0
    /\ validationCache = NoCache
    /\ pc = "start"
    /\ pending = {}
    /\ children = <<>>
    /\ sigHandlers = <<>>
    /\ received = <<>>
    /\ tempDirs = {}
    /\ log = <<>>
    /\ lastResolve = NoResolve
    /\ parentExit = NoExit
    /\ calls = <<>>
    /\ lastGetAll = NoGetAll
    /\ batch = NoBatch
    /\ health = NoHealth
    /\ lastEdit = NoEdit

IsolationNext ==
    \/ \E provider \in IsolationPool, args \in UserArgs,
          continueSession \in BOOLEAN, skipPermissions \in BOOLEAN, ok \in BOOLEAN :
          Launch(LaunchOptions(provider, args, continueSession, skipPermissions,
                               FALSE), ok)
    \/ \E k \in 1..Len(children), code \in ExitCodes : ChildExit(k, code)
    \/ \E k \in 1..Len(children) : ChildError(k)

IsolationSpec == IsolationInit /\ [][IsolationNext]_vars

\* providers with the fields the launcher reads whose validation reads no
\* variable of the environment: two of the category anthropic, two local
ChainPool ==
    { p \in IsolationPool : p.id \in {"relay", "ollama", "codex"} } \cup
    { Merge(Prov("claude", "anthropic", "api", "",
                 Validation("env", "", "", "")),
            Details("Claude", <<"~", "/.claude">>, << >>, <<>>, <<>>,
                    "--continue", "--dangerously-skip-permissions")) }

ChainIds == { p.id : p \in ChainPool }

\* a chain whose attempts are recorded with the environment they are given
HandoverInit ==
    /\ config \in { [providers |-> ps, overrides |-> << >>, disabled |-> <<>>] :
                       ps \in SeqsUpTo(ChainPool, MaxProviders) }
    /\ processEnv \in
          { [PATH |-> <<"/usr/bin">>,
             CLAUDE_PROVIDER |-> Unset,
             CLAUDE_CONFIG_DIR |-> Unset,
             ZAI_API_KEY |-> key,
             ANTHROPIC_AUTH_TOKEN |-> token,
             ANTHROPIC_BASE_URL |-> Unset] :
               key \in {Unset, <<"sk-1">>},
               token \in {Unset, <<"sk-parent">>} }
    /\ network = [u \in Urls |-> "ok"]
    /\ which = [c \in Commands |-> 0]
    /\ isMacOS \in BOOLEAN
    /\ rmFails = FALSE
    /\ now = 0
    /\ validationCache = NoCache
    /\ pc = "start"
    /\ pending = {}
    /\ children = <<>>
    /\ sigHandlers = <<>>
    /\ received = <<>>
    /\ tempDirs = {}
    /\ log = <<>>
    /\ lastResolve = NoResolve
    /\ parentExit = NoExit
    /\ calls = <<>>
    /\ lastGetAll = NoGetAll
    /\ batch = NoBatch
    /\ health = NoHealth
    /\ lastEdit = NoEdit

HandoverNext ==
    \/ \E id \in ChainIds, ok \in BOOLEAN : CliLaunch(id, TRUE, ok)
    \/ \E k \in 1..Len(children), code \in ExitCodes : ChildExit(k, code)
    \/ \E k \in pending, ok \in BOOLEAN : Resolve(k, ok)
    \/ \E k \in 1..Len(children) : ChildError(k)

HandoverSpec == HandoverInit /\ [][HandoverNext]_vars

----------------------------------------------------------------------------
(* Properties of the launch chain *)

Last(seq) == seq[Len(seq)]

Attempted == { children[k].provider.id : k \in 1..Len(children) }

Running == { k \in 1..Len(children) : children[k].status = "running" }

\* C1: the resolver never returns a provider whose id is in the tried list it
\* was given, and no provider id is attempted twice within one chain.
C1_NeverRevisits ==
    /\ lastResolve.result # <<>> =>
           ~Includes(lastResolve.triedProviders, lastResolve.result[1].id)
    /\ \A i, j \in 1..Len(children) :
           i < j => children[i].provider.id # children[j].provider.id

C1_Witness ==
    /\ Len(children) = 3
    /\ lastResolve.result # <<>>
    /\ Len(lastResolve.triedProviders) = 2

\* the providers of the registry that share the category of the first attempt
SameCategory ==
    { i \in 1..Len(getAllProviders) :
        getAllProviders[i].category = children[1].provider.category }

\* C2: with fallback enabled and every child exiting or failing to spawn, the
\* chain makes at most one attempt per provider of the category (the first
\* one included) and the parent process exits.
C2_BoundedAndTerminates ==
    /\ [](children # <<>> => Len(children) <= Cardinality(SameCategory))
    /\ (pc = "live") ~> (pc = "exited")

C2_Witness ==
    /\ pc = "exited"
    /\ Len(children) = 3
    /\ \A k \in 1..3 : children[k].code = 2
    /\ lastResolve.child = 3
    /\ lastResolve.result = <<>>

\* C3: every attempt's tried list holds the first provider's id and its own,
\* the first list is [first.id], and each fallback list is the previous one
\* with exactly the selected id appended.
C3_TriedGrows ==
    \A k \in 1..Len(children) :
        /\ Includes(children[k].triedProviders, children[1].provider.id)
        /\ Includes(children[k].triedProviders, children[k].provider.id)
        /\ k = 1 => children[k].triedProviders = <<children[1].provider.id>>
        /\ k > 1 => children[k].triedProviders =
                        Append(children[k - 1].triedProviders, children[k].provider.id)

C3_Witness ==
    /\ Len(children) = 2
    /\ children[1].provider.id = "ollama"
    /\ children[2].triedProviders = <<"ollama", "gemini">>
    /\ "codex" \in { getAllProviders[i].id : i \in 1..Len(getAllProviders) }

\* what the validator answered for p in the last resolver call
AnsweredValid(p) ==
    /\ p.id \in DOMAIN validationCache
    /\ validationCache[p.id].result.valid

Eligible(p) ==
    /\ p.category = lastResolve.current.category
    /\ ~Includes(lastResolve.triedProviders, p.id)
    /\ AnsweredValid(p)

\* C4: the resolver returns the first provider in getAll() order that has the
\* current provider's category, is not in the tried list and validates as
\* valid; it returns none exactly when no provider satisfies all three.
C4_FirstEligible ==
    lastResolve.called =>
        LET all == lastResolve.all
        IN  IF lastResolve.result = <<>>
            THEN /\ \A i \in 1..Len(all) : ~Eligible(all[i])
                 /\ \A i \in 1..Len(all) :
                        (/\ all[i].category = lastResolve.current.category
                         /\ ~Includes(lastResolve.triedProviders, all[i].id))
                        => all[i].id \in DOMAIN validationCache
            ELSE \E i \in 1..Len(all) :
                    /\ all[i] = lastResolve.result[1]
                    /\ Eligible(all[i])
                    /\ \A j \in 1..(i - 1) : ~Eligible(all[j])

C4_Witness ==
    /\ lastResolve.called
    /\ lastResolve.result # <<>>
    /\ \E i \in 1..Len(lastResolve.all) :
           /\ lastResolve.all[i] = lastResolve.result[1]
           /\ i = 3
           /\ lastResolve.all[2].category = lastResolve.current.category
           /\ ~Includes(lastResolve.triedProviders, lastResolve.all[2].id)
           /\ ~AnsweredValid(lastResolve.all[2])

\* C5: at most one child is alive, and when a further attempt exists every
\* earlier child has exited and its cleanup has run.
C5_OneChildAtATime ==
    /\ Cardinality(Running) <= 1
    /\ \A k \in 1..(Len(children) - 1) :
           /\ children[k].status = "exited"
           /\ children[k].via = "claude" => children[k].cleaned

C5_Witness ==
    /\ Len(children) = 2
    /\ children[2].status = "running"
    /\ children[1].via = "claude"
    /\ children[1].tempDir
    /\ children[1].cleaned
    /\ tempDirs = {2}

ExitedChildren == { k \in 1..Len(children) : children[k].status = "exited" }

Exhausted ==
    /\ pc = "exited"
    /\ children # <<>>
    /\ Last(children).status = "exited"
    /\ Last(children).fallback
    /\ Last(children).code \notin {0, NullCode}
    /\ lastResolve.called
    /\ lastResolve.child = Len(children)
    /\ lastResolve.result = <<>>

\* C7: when fallback is enabled, a child exits non-zero and the resolver finds
\* no candidate, the last thing the parent prints is that no fallback provider
\* is left, and it exits with the exit code of the last child.
C7_ExhaustionAnnounced ==
    Exhausted =>
        /\ Last(log) = "no-more-fallback"
        /\ log[Len(log) - 1] = "trying-fallback"
        /\ parentExit = Last(children).code

C7_Witness ==
    /\ Exhausted
    /\ Len(children) = 2
    /\ children[1].code = 2
    /\ children[2].code = 2
    /\ parentExit = 2

\* C8 as stated: every spawned provider, the first one included, had a valid
\* answer of the validator before it was spawned.
C8_Original ==
    \A k \in 1..Len(children) :
        /\ children[k].gate # <<>>
        /\ children[k].gate[1].valid

\* C8 amended: every fallback candidate is spawned only after the validator
\* answered valid for it; the initially chosen provider is spawned without
\* being validated.
C8_FallbackValidated ==
    \A k \in 1..Len(children) :
        IF k = 1 THEN children[k].gate = <<>>
        ELSE /\ children[k].gate # <<>>
             /\ children[k].gate[1].valid

C8_Witness ==
    /\ Len(children) = 2
    /\ children[1].provider.id = "zai"
    /\ processEnv["ZAI_API_KEY"] = ""
    /\ children[2].provider.id = "codex"
    /\ children[2].gate = <<Result(TRUE, <<"codex", " found in PATH">>)>>

\* the step is the parent receiving sig
Receives(sig) == received' = Append(received, sig)

\* the step is an exit or error event of child k, or the end of its handler
EventOf(k) ==
    \/ /\ children[k].status \in {"running", "spawnfail"}
       /\ children'[k].status \in {"exited", "errored"}
    \/ /\ k \in pending
       /\ k \notin pending'

\* C9: a SIGINT or SIGTERM the parent receives while a child is running is
\* delivered, as the same signal, to that child, and the parent stays alive;
\* the parent of a running chain exits only in a child's exit or error event.
C9_SignalForwarded ==
    [][ /\ \A sig \in Signals, k \in Running :
              Receives(sig) =>
                  /\ children'[k].signals = Append(children[k].signals, sig)
                  /\ children'[k].status = "running"
                  /\ pc' = "live"
                  /\ parentExit' = NoExit
        /\ (pc = "live" /\ pc' = "exited") =>
              \E k \in 1..Len(children) : EventOf(k) ]_vars

C9_Witness ==
    /\ Len(children) = 2
    /\ children[2].status = "running"
    /\ received = <<"SIGINT">>
    /\ children[2].signals = <<"SIGINT">>
    /\ pc = "live"

\* C10: a signal reaches no child other than the live one: a child that has
\* exited (or never started) is not sent anything afterwards.
C10_OnlyLiveChild ==
    [][ \A k \in 1..Len(children) :
            children[k].status # "running" =>
                children'[k].signals = children[k].signals ]_vars

C10_Witness ==
    /\ Len(children) = 2
    /\ Includes(sigHandlers, 1)
    /\ children[1].status = "exited"
    /\ children[1].signals = <<>>
    /\ children[2].signals = <<"SIGTERM">>
    /\ received = <<"SIGTERM">>

\* attempt k is over: a later attempt has been spawned or the parent is gone
Over(k) == k < Len(children) \/ pc = "exited"

Errored == { k \in 1..Len(children) : children[k].status = "errored" }

\* C12: when spawning the executable fails, the error is logged and the parent
\* exits with code 1 without consulting the resolver, also with fallback
\* enabled: nothing is spawned after the failed attempt.
C12_SpawnErrorExits ==
    \A k \in Errored :
        /\ pc = "exited"
        /\ parentExit = 1
        /\ Last(log) = "failed-to-start"
        /\ ~children[k].consulted
        /\ k \notin pending
        /\ lastResolve.child # k
        /\ Len(children) = k

C12_Witness ==
    /\ Len(children) = 2
    /\ children[2].status = "errored"
    /\ children[2].fallback
    /\ parentExit = 1

\* the first provider of a fallback-enabled chain failed to spawn
FirstSpawnFailed ==
    /\ children # <<>>
    /\ children[1].fallback
    /\ children[1].status = "errored"

\* C13 as stated: after a spawn failure of the first provider of a
\* fallback-enabled chain the resolver is consulted for it, and the parent
\* does not exit before the resolver has answered.
C13_Original ==
    FirstSpawnFailed =>
        /\ children[1].consulted
        /\ 1 \in pending \/ (lastResolve.called /\ lastResolve.child = 1)

\* C13 amended: a spawn failure of the first provider of a fallback-enabled
\* chain is not treated like a failed run: the resolver is never consulted,
\* no other provider is attempted and the parent exits with code 1.
C13_FirstSpawnFailureEndsChain ==
    FirstSpawnFailed =>
        /\ ~children[1].consulted
        /\ ~lastResolve.called
        /\ validationCache = NoCache
        /\ Len(children) = 1
        /\ pc = "exited"
        /\ parentExit = 1

C13_Witness ==
    /\ FirstSpawnFailed
    /\ \E i \in 1..Len(getAllProviders) :
          /\ getAllProviders[i].category = children[1].provider.category
          /\ getAllProviders[i].id # children[1].provider.id
          /\ underlyingCheck(getAllProviders[i]).valid

----------------------------------------------------------------------------
(* Properties of the validator *)

ValidateCalls == { i \in 1..Len(calls) : calls[i].op = "validate" }

\* j is the first call of validateProvider for the id of call i after call i
NextCallOf(i, j) ==
    /\ i \in ValidateCalls
    /\ j \in ValidateCalls
    /\ i < j
    /\ calls[j].provider.id = calls[i].provider.id
    /\ \A m \in (i + 1)..(j - 1) :
          calls[m].op = "validate" => calls[m].provider.id # calls[i].provider.id

NoClearBetween(i, j) == \A m \in (i + 1)..(j - 1) : calls[m].op # "clear"

\* C14: validate(p) called twice within 5 minutes without skipCache and with
\* no clearCache in between, the first call having run the underlying check:
\* the second call returns the same result and does not run the check, so
\* the check runs once.
C14_SecondCallCached ==
    \A i, j \in 1..Len(calls) :
        ( /\ NextCallOf(i, j)
          /\ NoClearBetween(i, j)
          /\ ~calls[i].skipCache
          /\ ~calls[j].skipCache
          /\ calls[i].checked
          /\ calls[j].at - calls[i].at < CACHE_TTL )
        => /\ calls[j].result = calls[i].result
           /\ ~calls[j].checked

C14_Witness ==
    /\ Len(calls) = 2
    /\ NextCallOf(1, 2)
    /\ ~calls[1].skipCache
    /\ ~calls[2].skipCache
    /\ calls[1].provider.id = "zai"
    /\ calls[1].checked
    /\ calls[1].result.valid
    /\ calls[2].at = CACHE_TTL - 1
    /\ processEnv["ZAI_API_KEY"] = ""
    /\ calls[2].result.valid

\* C15: after clearCache() the next validate(p) call of any provider runs the
\* underlying check, whatever had been cached before the clear.
C15_ClearForcesCheck ==
    \A c, j \in 1..Len(calls) :
        ( /\ calls[c].op = "clear"
          /\ j \in ValidateCalls
          /\ c < j
          /\ \A m \in (c + 1)..(j - 1) :
                calls[m].op = "validate" =>
                    calls[m].provider.id # calls[j].provider.id )
        => calls[j].checked

C15_Witness ==
    /\ Len(calls) = 3
    /\ calls[1].op = "validate"
    /\ calls[1].provider.id = "zai"
    /\ calls[1].result.valid
    /\ calls[2].op = "clear"
    /\ calls[3].op = "validate"
    /\ calls[3].provider.id = "zai"
    /\ ~calls[3].skipCache
    /\ calls[3].at = calls[1].at
    /\ calls[3].checked
    /\ ~calls[3].result.valid

\* C16: validate(p, skipCache = true) always runs the underlying check, even
\* when a fresh entry for p.id exists, and stores the new result: a later
\* validate(p) without skipCache within the TTL returns that new result.
C16_SkipCacheChecksAndStores ==
    /\ \A i \in ValidateCalls : calls[i].skipCache => calls[i].checked
    /\ \A i, j \in 1..Len(calls) :
          ( /\ NextCallOf(i, j)
            /\ NoClearBetween(i, j)
            /\ calls[i].skipCache
            /\ ~calls[j].skipCache
            /\ calls[j].at - calls[i].at < CACHE_TTL )
          => /\ calls[j].result = calls[i].result
             /\ ~calls[j].checked

C16_Witness ==
    /\ Len(calls) = 3
    /\ \A i \in 1..3 : calls[i].op = "validate" /\ calls[i].provider.id = "zai"
    /\ ~calls[1].skipCache /\ calls[1].result.valid
    /\ calls[2].skipCache /\ calls[2].at - calls[1].at < CACHE_TTL
    /\ ~calls[2].result.valid
    /\ ~calls[3].skipCache /\ ~calls[3].checked /\ ~calls[3].result.valid
    /\ processEnv["ZAI_API_KEY"] # ""

\* the call that stored the entry call j found for its id, if there is one
StoredBefore(j) ==
    { i \in ValidateCalls :
        /\ i < j
        /\ calls[i].provider.id = calls[j].provider.id
        /\ calls[i].checked
        /\ NoClearBetween(i, j)
        /\ \A m \in (i + 1)..(j - 1) :
              ~(calls[m].op = "validate"
                /\ calls[m].provider.id = calls[j].provider.id
                /\ calls[m].checked) }

\* C17: a cache entry is never served once 5 minutes or more have passed
\* since it was stored: validate(p) then runs the underlying check again and
\* the entry becomes the new result with the time of that call.
C17_ExpiredNeverServed ==
    /\ \A j \in ValidateCalls :
          /\ ~calls[j].checked =>
                \E i \in StoredBefore(j) :
                    /\ calls[j].at - calls[i].at < CACHE_TTL
                    /\ calls[j].result = calls[i].result
          /\ \A i \in StoredBefore(j) :
                calls[j].at - calls[i].at >= CACHE_TTL => calls[j].checked
    /\ \A id \in DOMAIN validationCache :
          \E i \in ValidateCalls :
              /\ calls[i].provider.id = id
              /\ calls[i].checked
              /\ validationCache[id] =
                     [result |-> calls[i].result, timestamp |-> calls[i].at]
              /\ \A m \in (i + 1)..Len(calls) :
                    ~(calls[m].op = "validate" /\ calls[m].provider.id = id
                      /\ calls[m].checked)

C17_Witness ==
    /\ Len(calls) = 2
    /\ NextCallOf(1, 2)
    /\ ~calls[2].skipCache
    /\ calls[1].at = 0
    /\ calls[2].at = CACHE_TTL
    /\ calls[1].result.valid
    /\ calls[2].checked
    /\ ~calls[2].result.valid
    /\ validationCache[calls[2].provider.id].timestamp = CACHE_TTL

\* what is wrong with the provider's setting in the present environment
MissingEnv(p) ==
    /\ p.validation.type = "env"
    /\ p.validation.envKey # ""
    /\ EnvValue(p.validation.envKey) = ""

Unreachable(p) ==
    /\ p.validation.type = "http"
    /\ p.validation.url # ""
    /\ FetchOutcome(p.validation.url) # "ok"

MissingCommand(p) ==
    /\ p.validation.type = "command"
    /\ p.validation.command # ""
    /\ which[p.validation.command] = 1

LookupFailure(p) ==
    /\ p.validation.type = "command"
    /\ p.validation.command # ""
    /\ which[p.validation.command] \notin {0, 1}

UnknownKind(p) == p.validation.type \notin {"env", "http", "command"}

\* C18: validate(p) and validateAll(ps) never throw or reject: every call
\* hands back a result, and a missing environment variable, an unreachable
\* URL, a missing command, an unexpected lookup failure and an unknown
\* validation kind each give valid = false with a message.
C18_NeverRejects ==
    \A i \in ValidateCalls :
        /\ "rejected" \notin DOMAIN calls[i].result
        /\ DOMAIN calls[i].result = {"valid", "message"}
        /\ calls[i].result.valid \in BOOLEAN
        /\ calls[i].result.message # <<>>
        /\ ( \/ MissingEnv(calls[i].provider)
             \/ Unreachable(calls[i].provider)
             \/ MissingCommand(calls[i].provider)
             \/ LookupFailure(calls[i].provider)
             \/ UnknownKind(calls[i].provider) )
           => ~calls[i].result.valid
        /\ MissingEnv(calls[i].provider) =>
               calls[i].result.message[1] = calls[i].provider.validation.envKey
        /\ UnknownKind(calls[i].provider) =>
               calls[i].result.message = <<"Unknown validation type">>

C18_Witness ==
    /\ Len(calls) = 2
    /\ calls[1].at = calls[2].at
    /\ UnknownKind(calls[1].provider)
    /\ ~calls[1].result.valid
    /\ LookupFailure(calls[2].provider)
    /\ calls[2].result = Result(FALSE, <<"codex", " not found">>)
    /\ Unreachable(CHOOSE p \in ProviderPool : p.id = "ollama")
    /\ MissingEnv(CHOOSE p \in ProviderPool : p.id = "zai")

----------------------------------------------------------------------------
(* Properties of the registry *)

Listed == lastGetAll.result

Raw == lastGetAll.of.providers

\* C19 as stated: for every id in the disabled set, getAll() returns no
\* entry with that id, whatever the raw list and the overrides contain.
C19_DisabledNeverListed ==
    lastGetAll.called =>
        \A i \in 1..Len(Listed) : ~Includes(lastGetAll.of.disabled, Listed[i].id)

\* the ids that occur more than once in the raw list and are not disabled
RepeatedIds ==
    { id \in { Raw[i].id : i \in 1..Len(Raw) } :
        /\ ~Includes(lastGetAll.of.disabled, id)
        /\ Cardinality({ i \in 1..Len(Raw) : Raw[i].id = id }) > 1 }

FirstOccurrence(id) ==
    Raw[CHOOSE i \in 1..Len(Raw) :
            Raw[i].id = id /\ \A j \in 1..(i - 1) : Raw[j].id # id]

\* the first occurrence with the override of the id laid over it
Expected(id) ==
    IF id \in DOMAIN lastGetAll.of.overrides
    THEN [k \in DOMAIN FirstOccurrence(id) |->
             IF k \in DOMAIN lastGetAll.of.overrides[id]
             THEN lastGetAll.of.overrides[id][k]
             ELSE FirstOccurrence(id)[k]]
    ELSE FirstOccurrence(id)

\* the entries of the list that come from a raw entry with this id: the
\* list keeps the order of the raw entries that survive
EntriesFor(id) ==
    LET kept == { i \in 1..Len(Raw) :
                    /\ ~Includes(lastGetAll.of.disabled, Raw[i].id)
                    /\ \A j \in 1..(i - 1) : Raw[j].id # Raw[i].id }
        rank(i) == Cardinality({ j \in kept : j <= i })
    IN  { rank(i) : i \in { k \in kept : Raw[k].id = id } }

C21_UniqueIds ==
    lastGetAll.called =>
        \A i, j \in 1..Len(Listed) : Listed[i].id = Listed[j].id => i = j

\* a provider entry of the file
IsProvider(v) == "id" \in DOMAIN v

IsProviderList(v) ==
    /\ v.json = "array"
    /\ \A i \in 1..Len(v.items) : IsProvider(v.items[i])

\* the expected shape: the legacy list of providers, or an object whose
\* providers, overrides and disabled, where present, are a list of
\* providers, an object and a list of ids
WellFormed(file) ==
    \/ IsProviderList(file)
    \/ /\ file.json = "object"
       /\ (file.providers = Absent \/ IsProviderList(file.providers))
       /\ (file.overrides = Absent \/ file.overrides.json = "object")
       /\ (file.disabled = Absent \/ file.disabled.json = "array")

Malformed(file) == ~WellFormed(file)

\* C22 as stated: for any malformed content of the provider config file
\* (unparseable, or parseable but not of the expected document shape),
\* getAll() yields an empty provider list and never throws.
C22_MalformedYieldsEmpty ==
    (lastGetAll.called /\ Malformed(lastGetAll.of)) =>
        /\ ~lastGetAll.result.threw
        /\ lastGetAll.result.list = <<>>

----------------------------------------------------------------------------
(* Properties of the batch validation *)

\* a check that was waiting for its fetch has finished
Settles(i) == batch.status[i] = "inflight" /\ batch'.status[i] # "inflight"

BatchIds == { batch.providers[i].id : i \in 1..Len(batch.providers) }

----------------------------------------------------------------------------
(* Properties of the validation kinds *)

\* the calls that ran the check of a provider of the given kind
ChecksOfKind(kind) ==
    { i \in ValidateCalls :
        calls[i].checked /\ calls[i].provider.validation.type = kind }

\* C24: for validation kind env the result is valid if no envKey is
\* specified, and otherwise valid if and only if the named environment
\* variable is set and non-empty; an invalid result's message names the
\* env key.
C24_EnvKind ==
    \A i \in ChecksOfKind("env") :
        LET envKey == calls[i].provider.validation.envKey
        IN  /\ envKey = "" => calls[i].result.valid
            /\ envKey # "" =>
                  (calls[i].result.valid <=>
                      (envKey \in DOMAIN processEnv /\ processEnv[envKey] # ""))
            /\ ~calls[i].result.valid => Includes(calls[i].result.message, envKey)

C24_Witness ==
    /\ Len(calls) = 2
    /\ calls[1].checked /\ calls[2].checked
    /\ calls[1].provider.validation = Validation("env", "", "", "")
    /\ calls[1].result = Result(TRUE, <<"Always available">>)
    /\ calls[2].provider.validation = Validation("env", "ZAI_API_KEY", "", "")
    /\ processEnv["ZAI_API_KEY"] = ""
    /\ calls[2].result = Result(FALSE, <<"ZAI_API_KEY", " not set">>)

\* the part of the message that says why the url was not reached
FailureDetail(i) == calls[i].result.message[Len(calls[i].result.message)]

\* C25: for validation kind http (with a url) the result is valid if and
\* only if a GET to the url completes with any HTTP status within 2
\* seconds; a timeout and a connection failure both give an invalid result,
\* and the message tells a timeout apart from a connection error.
C25_HttpKind ==
    \A i \in ChecksOfKind("http") :
        LET url == calls[i].provider.validation.url
        IN  url # "" =>
              /\ calls[i].result.valid <=> network[url] = "ok"
              /\ network[url] \in {"timeout", "refused"} => ~calls[i].result.valid
              /\ network[url] = "timeout" => FailureDetail(i) = "timeout"
              /\ network[url] = "refused" => FailureDetail(i) # "timeout"

C25_Witness ==
    /\ Len(calls) = 1
    /\ calls[1].checked
    /\ calls[1].provider.validation = Validation("http", "", OllamaUrl, "")
    /\ network[OllamaUrl] = "timeout"
    /\ calls[1].result = Result(FALSE, <<"Not reachable at ", OllamaUrl, "timeout">>)

----------------------------------------------------------------------------
(* Properties of the environment and the arguments of a launch *)

\* the children launched through the shared binary, with a built environment
Isolated == { k \in 1..Len(children) : children[k].via = "claude" }

\* the value the target had before the mappings were applied: the literal
\* assignment of envVars, or else the caller's own value
Before(child, target) ==
    IF target \in DOMAIN child.provider.envVars
    THEN child.provider.envVars[target]
    ELSE processEnv[target]

\* C26: for each envMappings entry (source -> target) the child's target
\* key is set to the caller's value of the source key only if the source is
\* present in the caller's environment; when the source is absent the
\* target keeps the value it already had and is never cleared.
C26_MappingOnlyIfPresent ==
    \A k \in Isolated :
        LET child == children[k]
            entries == child.provider.envMappings
        IN  \A i \in 1..Len(entries) :
                LET source == entries[i][1]
                    target == entries[i][2]
                IN  /\ child.env[target] # Before(child, target) =>
                          /\ processEnv[source] # Unset
                          /\ child.env[target] = processEnv[source]
                    /\ processEnv[source] = Unset =>
                          child.env[target] = Before(child, target)
                    /\ Truthy(processEnv[source]) =>
                          child.env[target] = processEnv[source]
                    /\ Before(child, target) # Unset => child.env[target] # Unset

C26_Witness ==
    /\ Len(children) = 1
    /\ children[1].provider.id = "relay"
    /\ children[1].via = "claude"
    /\ processEnv["ZAI_API_KEY"] = Unset
    /\ processEnv["ANTHROPIC_AUTH_TOKEN"] = <<"sk-parent">>
    /\ children[1].env["ANTHROPIC_AUTH_TOKEN"] = <<"placeholder">>

\* the configDir with the home-directory placeholder expanded
Expanded(configDir) ==
    IF configDir[1] = "~"
    THEN [i \in 1..Len(configDir) |-> IF i = 1 THEN HomeDir ELSE configDir[i]]
    ELSE configDir

\* C27: in the environment given to the child of a non-standalone provider,
\* CLAUDE_PROVIDER names the provider being launched and CLAUDE_CONFIG_DIR
\* equals that provider's configDir with the home-directory placeholder
\* expanded.
C27_IdentityAndConfigRoot ==
    \A k \in 1..Len(children) :
        children[k].provider.type # "standalone" =>
            /\ children[k].env["CLAUDE_PROVIDER"] = <<children[k].provider.name>>
            /\ children[k].env["CLAUDE_CONFIG_DIR"] =
                   Expanded(children[k].provider.configDir)
            /\ children[k].env["CLAUDE_CONFIG_DIR"][1] # "~"

C27_Witness ==
    /\ Len(children) = 1
    /\ children[1].provider.id = "zai"
    /\ processEnv["CLAUDE_PROVIDER"] = <<"Claude">>
    /\ children[1].env["CLAUDE_PROVIDER"] = <<"Z.AI">>
    /\ children[1].env["CLAUDE_CONFIG_DIR"] = <<"/home/user", "/.claude-zai">>

ContinueFlags(provider) == {"--continue", provider.continueArg} \ {""}

SkipPermissionsFlags(provider) ==
    {"--dangerously-skip-permissions", provider.skipPermissionsArg} \ {""}

\* C29 as stated: for a non-standalone provider, a continue flag and a
\* skip-permissions flag are each prepended to the argument list exactly
\* when that option was requested and the provider's own flag mapping
\* supports it; the user args follow unchanged.
C29_FlagsWhenSupported ==
    \A k \in 1..Len(children) :
        LET child == children[k]
            provider == child.provider
            prefix == Len(child.args) - Len(child.options.args)
        IN  provider.type # "standalone" =>
                /\ prefix >= 0
                /\ SubSeq(child.args, prefix + 1, Len(child.args)) = child.options.args
                /\ (\E i \in 1..prefix : child.args[i] \in ContinueFlags(provider))
                       <=> (child.options.continueSession /\ provider.continueArg # "")
                /\ (\E i \in 1..prefix : child.args[i] \in SkipPermissionsFlags(provider))
                       <=> (child.options.skipPermissions
                            /\ provider.skipPermissionsArg # "")

\* C30: on a platform without the OS credential store, shim creation
\* returns no temp dir, creates nothing on the filesystem and leaves the
\* child's PATH as inherited; on the credential-store platform the child's
\* PATH is the shim directory followed by the path-list separator and the
\* inherited PATH.
C30_ShimOnlyOnMacOS ==
    \A k \in Isolated :
        LET child == children[k]
        IN  /\ ~isMacOS =>
                  /\ child.shim = <<>>
                  /\ ~child.tempDir
                  /\ k \notin tempDirs
                  /\ child.made = {Expanded(child.provider.configDir)}
                  /\ child.env["PATH"] = processEnv["PATH"]
            /\ isMacOS =>
                  /\ child.shim = <<ShimDir>>
                  /\ child.env["PATH"] = <<ShimDir, ":">> \o processEnv["PATH"]

C30_Witness ==
    /\ isMacOS
    /\ Len(children) = 1
    /\ children[1].provider.id = "ollama"
    /\ children[1].status = "running"
    /\ 1 \in tempDirs
    /\ children[1].env["PATH"] = <<"/tmp/agent-cli-uuid", ":", "/usr/bin">>

----------------------------------------------------------------------------
(* Properties of the deep health check *)

\* the checks of the running batch that have started and not returned
InProgress == { i \in 1..Len(health.providers) : health.status[i] \in {"basic", "deep"} }

\* the deep requests check i has sent
DeepRequests(i) ==
    SelectSeq(health.requests, LAMBDA r : r.of = i /\ r.purpose = "deep")

\* C31: the batch deep health check runs one provider at a time in input
\* order: the check of provider i+1 has not started unless the check of
\* provider i has finished, and at most one check, hence at most one deep
\* request, is under way at any moment.
C31_SerialHealth ==
    /\ \A i \in 1..(Len(health.providers) - 1) :
           health.status[i + 1] # "unstarted" => health.status[i] = "done"
    /\ Cardinality(InProgress) <= 1
    /\ \A k \in 1..Len(health.requests) :
           \A i \in 1..(health.requests[k].of - 1) : health.status[i] = "done"

C31_Witness ==
    /\ health.running
    /\ Len(health.providers) = 2
    /\ health.providers[1].id = "ollama"
    /\ health.providers[2].id = "claude"
    /\ health.status = <<"done", "deep">>
    /\ Len(DeepRequests(1)) = 1
    /\ Len(DeepRequests(2)) = 1

\* the checks whose basic validation has answered
Answered == { i \in 1..Len(health.providers) : health.basic[i] # <<>> }

\* C32: an inference POST is sent only for a provider of type api whose basic
\* validation is valid; a proxy gets nothing but one GET of its base url; a
\* gateway and a standalone provider get no deep request and the basic result
\* with the annotation; an invalid basic validation means no deep request.
C32_DeepByType ==
    /\ \A i \in 1..Len(health.providers) :
           DeepRequests(i) # <<>> => i \in Answered
    /\ \A i \in Answered :
         LET provider == health.providers[i]
             basicResult == health.basic[i][1]
             sent == DeepRequests(i)
         IN  /\ (\E k \in 1..Len(sent) : sent[k].method = "POST") =>
                    provider.type = "api" /\ basicResult.valid
             /\ provider.type = "proxy" =>
                    /\ \A k \in 1..Len(sent) : sent[k].method = "GET"
                    /\ basicResult.valid =>
                           /\ Len(sent) = 1
                           /\ sent[1].url = <<resolveBaseUrl(provider)>>
             /\ provider.type \in {"gateway", "standalone"} =>
                    /\ sent = <<>>
                    /\ (basicResult.valid /\ health.status[i] = "done") =>
                           /\ health.outcome[i][1].valid
                           /\ health.outcome[i][1].message =
                                  basicResult.message \o
                                  <<" (deep check not supported for ",
                                    provider.type, ")">>
             /\ ~basicResult.valid =>
                    /\ sent = <<>>
                    /\ health.status[i] = "done"
                    /\ ~health.outcome[i][1].valid

C32_Witness ==
    /\ health.returned
    /\ health.providers[1].id = "zai"
    /\ health.basic[1][1].valid
    /\ health.requests =
          << Request(1, "deep", "POST", <<"https://api.z.ai", "/v1/messages">>,
                     "sk-mapped") >>

\* the api checks that have got a response to their POST
Responded ==
    { i \in 1..Len(health.providers) :
        /\ health.status[i] = "done"
        /\ health.providers[i].type = "api"
        /\ health.reply[i] # <<>>
        /\ health.reply[i][1].kind = "response" }

\* the text that goes with a failure status
StatusText(i) ==
    LET status == health.reply[i][1].status
    IN  IF status = 401 THEN <<"Authentication failed">>
        ELSE IF status = 403 THEN <<"Access forbidden">>
        ELSE IF status = 404
        THEN <<"Model not found: ", health.outcome[i][1].modelName>>
        ELSE <<"Server error">>

FailureStatus(i) ==
    health.reply[i][1].status \in {401, 403, 404}
    \/ health.reply[i][1].status >= 500

\* C33 as stated: a 429 gives a valid result marked as rate-limited, and
\* 401, 403, 404 and 5xx give an invalid result whose message is the text
\* that goes with the status.
C33_Original ==
    \A i \in Responded :
        /\ health.reply[i][1].status = 429 =>
               /\ health.outcome[i][1].valid
               /\ health.outcome[i][1].message = <<"API responding (rate limited)">>
        /\ FailureStatus(i) =>
               /\ ~health.outcome[i][1].valid
               /\ health.outcome[i][1].message = StatusText(i)

\* C33: a 429 gives a valid result marked as rate-limited, and 401, 403, 404
\* and 5xx give an invalid result whose message is the error message of the
\* response body when the body carries one, and otherwise the text that goes
\* with the status.
C33_StatusMessages ==
    \A i \in Responded :
        /\ health.reply[i][1].status = 429 =>
               /\ health.outcome[i][1].valid
               /\ health.outcome[i][1].message = <<"API responding (rate limited)">>
        /\ FailureStatus(i) =>
               /\ ~health.outcome[i][1].valid
               /\ health.outcome[i][1].message =
                      IF health.reply[i][1].detail # ""
                      THEN <<health.reply[i][1].detail>>
                      ELSE StatusText(i)

C33_Witness ==
    /\ health.returned
    /\ health.providers[1].id = "claude"
    /\ health.reply[1] = <<Response(401, "invalid x-api-key")>>
    /\ health.results["claude"].message = <<"invalid x-api-key">>
    /\ ~health.results["claude"].valid

\* the values the key may come from, in the order of the claim: the sources
\* of the mappings, the validation's variable, ANTHROPIC_API_KEY
KeySources(provider) ==
    [k \in 1..Len(provider.envMappings) |-> provider.envMappings[k][1]] \o
    (IF provider.validation.envKey # "" THEN <<provider.validation.envKey>> ELSE <<>>) \o
    <<"ANTHROPIC_API_KEY">>

Available(provider) ==
    SelectSeq(KeySources(provider), LAMBDA key : EnvValue(key) # "")

\* C34: the api deep check sends as key the first value there is among the
\* sources of the mappings, the validation's variable and ANTHROPIC_API_KEY,
\* in this order, and reports that no key was found only when none of them
\* has a value.
C34_KeyOrder ==
    \A i \in Answered :
        LET provider == health.providers[i]
        IN  (provider.type = "api" /\ health.basic[i][1].valid) =>
                IF Available(provider) = <<>>
                THEN /\ DeepRequests(i) = <<>>
                     /\ health.outcome[i][1].message =
                            <<"No API key found for health check">>
                ELSE /\ Len(DeepRequests(i)) = 1
                     /\ DeepRequests(i)[1].key = EnvValue(Head(Available(provider)))

----------------------------------------------------------------------------
(* Properties of registry edits *)

\* getAllProviders() lists a provider under this id
ListedNow(id) == \E i \in 1..Len(getAllProviders) : getAllProviders[i].id = id

\* the step is a call of disableProvider for an id that is disabled already
DisablesAgain ==
    /\ lastEdit' # lastEdit
    /\ lastEdit'.op = "disable"
    /\ Includes(config.disabled, lastEdit'.id)

\* C35: registry edits are visible immediately and disabling is idempotent:
\* after disableProvider(id), getAllProviders() lists no provider under id,
\* and an id leaves the disabled list only by enableProvider(id); disabling
\* an id that is disabled already adds no entry and writes nothing; after
\* one enableProvider(id) the id is not in the disabled list.
C35_EditsVisibleIdempotent ==
    /\ []((lastEdit.called /\ lastEdit.op = "disable") => ~ListedNow(lastEdit.id))
    /\ [][ \A id \in RegistryIds :
              (Includes(config.disabled, id) /\ ~Includes(config'.disabled, id)) =>
                  (lastEdit'.op = "enable" /\ lastEdit'.id = id) ]_vars
    /\ [][ DisablesAgain => (config' = config /\ ~lastEdit'.wrote) ]_vars
    /\ []((lastEdit.called /\ lastEdit.op = "enable") =>
              ~Includes(config.disabled, lastEdit.id))

----------------------------------------------------------------------------
(* Properties of the chain while the stored config is edited *)

\* the step is a call of the Fallback Resolver
Resolves == lastResolve' # lastResolve

\* C36 as stated: all resolver calls of one chain draw their candidates from
\* the same provider collection, whatever is stored meanwhile.
C36_Original ==
    [][ (lastResolve.called /\ Resolves) => lastResolve'.all = lastResolve.all ]_vars

\* C36: every resolver call draws its candidates from the provider
\* collection as it is stored when the call is made: the provider it returns
\* is stored and not disabled at that time, of the category of the provider
\* that failed, and not tried before.
C36_CandidatesAsStored ==
    [][ (Resolves /\ lastResolve'.result # <<>>) =>
            LET next == lastResolve'.result[1]
            IN  /\ \E i \in 1..Len(config.providers) : config.providers[i].id = next.id
                /\ ~Includes(config.disabled, next.id)
                /\ next.category = lastResolve'.current.category
                /\ ~Includes(lastResolve'.triedProviders, next.id) ]_vars

C36_Witness ==
    /\ [i \in 1..Len(config.providers) |-> config.providers[i].id] =
          <<"ollama", "gemini", "codex">>
    /\ Len(children) = 3
    /\ children[1].provider.id = "ollama"
    /\ children[2].provider.id = "codex"
    /\ children[3].provider.id = "gemini"
    /\ lastEdit = [called |-> TRUE, op |-> "enable", id |-> "gemini", wrote |-> TRUE]

----------------------------------------------------------------------------
(* Properties of what counts as a failed run and of the path of an attempt *)

\* C37: a child that was ended by a signal and reports no numeric exit code
\* starts no fallback attempt, even with fallback enabled: the resolver is
\* not consulted for it and no attempt follows it.
C37_NoFallbackAfterSignal ==
    \A k \in 1..Len(children) :
        (children[k].status = "exited" /\ children[k].code = NullCode) =>
            /\ ~children[k].consulted
            /\ k = Len(children)

\* the path that goes with a provider's type
PathOf(provider) == IF provider.type = "standalone" THEN "standalone" ELSE "claude"

\* C38: every attempt of a chain is launched through the path of the
\* attempted provider's own type: the provider a resolver call returns is
\* launched, a provider that is not standalone through the shared binary, a
\* standalone provider through its own command.
C38_PathMatchesType ==
    /\ \A k \in 1..Len(children) :
           /\ children[k].via = PathOf(children[k].provider)
           /\ children[k].command =
                  IF children[k].provider.type = "standalone"
                  THEN children[k].provider.command ELSE "claude"
    /\ (lastResolve.called /\ lastResolve.result # <<>>) =>
           /\ children # <<>>
           /\ Last(children).provider = lastResolve.result[1]
           /\ Len(children) > lastResolve.child

----------------------------------------------------------------------------
(* Properties of the environment along a chain *)

EnvVarNames == DOMAIN processEnv

\* the values the launch of this provider introduces for a variable: the
\* identity, the config root, a literal of envVars, the value of a mapping's
\* source in the parent's environment, the shim directory in front of the
\* parent's PATH
Introduced(provider, name) ==
    (IF name = "CLAUDE_PROVIDER" THEN { <<provider.name>> } ELSE {}) \cup
    (IF name = "CLAUDE_CONFIG_DIR"
     THEN { <<HomeDir>> \o Tail(provider.configDir), provider.configDir } ELSE {}) \cup
    (IF name \in DOMAIN provider.envVars THEN { provider.envVars[name] } ELSE {}) \cup
    { processEnv[provider.envMappings[i][1]] :
        i \in { j \in 1..Len(provider.envMappings) : provider.envMappings[j][2] = name } } \cup
    (IF name = "PATH" THEN { <<ShimDir, ":">> \o processEnv["PATH"] } ELSE {})

\* C39: building the environment of an attempt leaves the parent's own
\* environment as it is, so every variable of an attempt after the first
\* holds the parent's value or a value introduced for that attempt's own
\* provider, never one introduced for the provider of the attempt before
\* it; a standalone attempt gets the parent's environment itself.
C39_NoCarryOver ==
    /\ [][processEnv' = processEnv]_vars
    /\ [](\A k \in 2..Len(children) :
             LET child == children[k]
             IN  IF child.via = "standalone"
                 THEN child.env = processEnv
                 ELSE \A name \in EnvVarNames :
                          child.env[name] \in
                              {processEnv[name]} \cup Introduced(child.provider, name))

C39_Witness ==
    /\ Len(children) = 2
    /\ children[1].provider.id = "relay"
    /\ children[1].env["ANTHROPIC_BASE_URL"] = <<"https://relay.example">>
    /\ children[1].env["ANTHROPIC_AUTH_TOKEN"] = <<"sk-1">>
    /\ children[2].provider.id = "claude"
    /\ children[2].status = "running"
    /\ children[2].env["ANTHROPIC_BASE_URL"] = Unset
    /\ children[2].env["ANTHROPIC_AUTH_TOKEN"] = <<"sk-parent">>
    /\ children[2].env["CLAUDE_PROVIDER"] = <<"Claude">>

----------------------------------------------------------------------------
(* Properties of the cache key *)

\* C40: the validation cache is keyed by the provider id alone: within the
\* TTL a call of validate(p) without skipCache returns the entry stored under
\* p.id and runs no check, whatever validation settings p has now and
\* whatever the environment is now.
C40_KeyedByIdAlone ==
    \A j \in ValidateCalls :
        ~calls[j].skipCache =>
            \A i \in StoredBefore(j) :
                calls[j].at - calls[i].at < CACHE_TTL =>
                    /\ calls[j].result = calls[i].result
                    /\ ~calls[j].checked

C40_Witness ==
    /\ Len(calls) = 2
    /\ calls[1].provider.validation = Validation("env", "ZAI_API_KEY", "", "")
    /\ calls[1].checked
    /\ calls[1].result.valid
    /\ calls[2].provider.validation = Validation("http", "", OllamaUrl, "")
    /\ ~calls[2].skipCache
    /\ calls[2].at = CACHE_TTL - 1
    /\ network[OllamaUrl] = "timeout"
    /\ processEnv["ZAI_API_KEY"] = ""
    /\ calls[2].result = Result(TRUE, <<"API key configured">>)

====
